---------------------------- MODULE Spec2Model ----------------------------
(***************************************************************************)
(* Fence-keyed lifetime management of the D3D12 translation layer          *)
(* (include/d3d12translationlayer/ImmediateContext.hpp):                   *)
(*   - CFencePool          : a FIFO of (fence value, resource) entries     *)
(*   - CFencedRingBuffer   : a ring of items released by fence value,      *)
(*                           tracked by a 16-entry ledger                  *)
(*   - CDescriptorHeapManager : descriptor slots handed out from pages,    *)
(*                           each page with a list of free ranges          *)
(*   - DeferredDeletionQueueManager : retired objects kept until their     *)
(*                           fences have completed                         *)
(* Each component has its own specification (SpecPool, SpecRing, SpecHeap, *)
(* SpecHeapOom, SpecQueue); the                                            *)
(* variables of the other components are left unchanged by its actions.    *)
(***************************************************************************)
EXTENDS Integers, Naturals, Sequences, FiniteSets, TLC

VARIABLES
    m_Pool,     \* CFencePool::m_Pool, a sequence of <<fence value, resource>>
    held,       \* resources currently owned by the caller of the pool
    numCreated, \* number of pfnCreateNew calls made so far (the last id handed out)
    poolLast,   \* what the last pool operation was given and what it returned
    rt,         \* observer: the round trip "returns on an empty pool, then retrievals"
    ring,       \* the CFencedRingBuffer object (its fields, under their source names)
    caller,     \* which kind of caller drives the ring in this run
    fenceSeen,  \* the largest CurrentFenceValue passed to Allocate so far
    ringLast,   \* what the last ring operation was given and what it returned
    ranges,     \* observer: which slots of the ring are granted and not yet released
    heapMgr,    \* the CDescriptorHeapManager object: m_Heaps and m_FreeHeaps
    heldSlots,  \* the (handle, page index) pairs the caller of the manager holds
    numOom,     \* bookkeeping allocations of the manager that threw bad_alloc so far
    aborted,    \* an assert of the manager has stopped the program
    scenario,   \* observer: progress along the fragmentation-and-coalesce scenario
    heapLast,   \* what the last manager operation was given and what it returned
    queueMgr,   \* the DeferredDeletionQueueManager object: its two queues
    completed,  \* GetCompletedFenceValue(t) for each command-list type t
    extCompleted, \* the completed value of the fence of the deferred waits
    destructed, \* the queue manager's destructor has run
    retirer,    \* which kind of objects are retired in this run
    queueLast,  \* what the last queue operation was and what it destroyed
    m_MaxInFlightDepth, \* CBoundedFencePool::m_MaxInFlightDepth
    holding,    \* the most resources the caller of the bounded pool holds at a time
    boundedLast, \* what the last bounded-pool operation was given and what it did
    m_pLock,    \* the thread that holds the bounded pool's *m_pLock, or NoOwner
    waiters,    \* where each thread calling the shared bounded pool is, with its locals
    m_MultiPool, \* CMultiLevelPool::m_MultiPool, a sequence of pools (bucket i is element i + 1)
    m_Lock,     \* the thread that holds CMultiLevelPool::m_Lock, or NoOwner
    threads,    \* where each thread calling the multi-level pool is, with its locals
    life,       \* for each resource made for the multi-level pool, where it is
    sizing      \* a size, with the bucket index and aligned size computed from it

poolVars == <<m_Pool, held, numCreated, poolLast, rt>>
ringVars == <<ring, caller, fenceSeen, ringLast, ranges>>
heapVars == <<heapMgr, heldSlots, numOom, aborted, scenario, heapLast>>
queueVars == <<queueMgr, completed, extCompleted, destructed, retirer, queueLast>>
boundedVars == <<m_MaxInFlightDepth, holding, boundedLast, m_pLock, waiters>>
multiVars == <<m_MultiPool, m_Lock, threads, life, sizing>>
vars == <<m_Pool, held, numCreated, poolLast, rt, ring, caller, fenceSeen, ringLast,
          ranges,
          heapMgr, heldSlots, numOom, aborted, scenario, heapLast,
          queueMgr, completed, extCompleted, destructed, retirer, queueLast,
          m_MaxInFlightDepth, holding, boundedLast, m_pLock, waiters,
          m_MultiPool, m_Lock, threads, life, sizing>>

(***************************************************************************)
(* Bounds of the model.                                                    *)
(***************************************************************************)
MaxRes == 3          \* resources pfnCreateNew may create in one run
MaxPoolFence == 3    \* fence values given to the pool are 0..MaxPoolFence
MaxThreshold == 2    \* trim thresholds are 0..MaxThreshold
Size == 6            \* CFencedRingBuffer(Size)
WideFence == 3       \* fence values of the "mixed" caller are 1..WideFence
MaxFence == 17       \* fence values of the "steady" caller are 1..MaxFence
MaxTail == 12        \* m_Tail is a 64-bit counter: runs stop advancing it here
NumDescriptorsPerHeap == 4   \* m_Desc.NumDescriptors of the manager
m_DescriptorSize == 2        \* GetDescriptorHandleIncrementSize(Type) of the device
MaxHeld == 5         \* handles the caller of the manager holds at a time
MaxOom == 1          \* bad_alloc exceptions thrown inside the manager in one run
MaxQueue == 2        \* retired items waiting in the two deletion queues together
MaxCmdFence == 1     \* command-list fence values are 0..MaxCmdFence
MaxExtFence == 1     \* values of the fence of the deferred waits are 0..MaxExtFence
MaxDepth == 2        \* m_MaxInFlightDepth of the bounded pool is 0..MaxDepth
MaxHolding == 2      \* callers of the bounded pool hold at most 1..MaxHolding resources
MaxBucket == 1       \* sizes given to the multi-level pool map to buckets 0..MaxBucket
MaxMultiRes == 2     \* resources pfnCreateNew may create for the multi-level pool
MaxMultiFence == 2   \* fence values given to the multi-level pool are 0..MaxMultiFence
m_TrimThreshold == 1 \* CMultiLevelPool(TrimThreshold, bLock)
SmallSize == 3       \* sizes tried: up to SmallSize multiples and SmallSize bytes ...
NearWrap == 3        \* ... and within NearWrap multiples of 2^32 bytes

(***************************************************************************)
(* Program constants.                                                      *)
(***************************************************************************)
cLedgerSize == 16
InvalidOffset == -1  \* UINT32(-1), all bits set: written as the signed value of that pattern
Unwritten == -2      \* OffsetOut left as the caller passed it (no assignment made)

(***************************************************************************)
(* CFencePool<TResourceType>                                               *)
(* m_Pool is a std::list of (fence value, resource) pairs: a sequence of   *)
(* <<fence, resource>>.  Resources are the ids 1, 2, ... in the order      *)
(* pfnCreateNew made them.                                                 *)
(***************************************************************************)
Fences(pool) == {pool[i][1] : i \in 1..Len(pool)}
Resources(pool) == {pool[i][2] : i \in 1..Len(pool)}

\* Mutants of the pool operations (each a plausible slip in the code).
Mutant_ReturnToPool_PushFront(pool, Resource, FenceValue, bad_alloc) ==
    IF bad_alloc THEN pool ELSE <<<<FenceValue, Resource>>>> \o pool

Mutant_RetrieveFromPool_NoFenceTest(pool, CurrentFenceValue, fresh) ==
    IF pool = <<>>
    THEN [pool |-> pool, ret |-> fresh, created |-> 1]
    ELSE [pool |-> Tail(pool), ret |-> Head(pool)[2], created |-> 0]

Mutant_RetrieveFromPool_TakesLast(pool, CurrentFenceValue, fresh) ==
    IF pool = <<>> \/ CurrentFenceValue < Head(pool)[1]
    THEN [pool |-> pool, ret |-> fresh, created |-> 1]
    ELSE [pool |-> SubSeq(pool, 1, Len(pool) - 1), ret |-> pool[Len(pool)][2],
          created |-> 0]

\* Mutant: a head whose fence value equals the completed value is not reused.
Mutant_RetrieveFromPool_StrictlyCompleted(pool, CurrentFenceValue, fresh) ==
    IF pool = <<>> \/ CurrentFenceValue <= Head(pool)[1]
    THEN [pool |-> pool, ret |-> fresh, created |-> 1]
    ELSE [pool |-> Tail(pool), ret |-> Head(pool)[2], created |-> 0]

\* Mutant: the entries stored so far are lost when emplace_back throws.
Mutant_ReturnToPool_ClearsOnFailure(pool, Resource, FenceValue, bad_alloc) ==
    IF bad_alloc THEN <<>> ELSE Append(pool, <<FenceValue, Resource>>)

\* Mutant: the difference is taken without the test of line 63, as an unsigned
\* value that wraps around.
Mutant_Trim_NoFenceTest(pool, TrimThreshold, CurrentFenceValue) ==
    IF pool = <<>>
    THEN pool
    ELSE LET difference == (CurrentFenceValue - Head(pool)[1]) % 65536
         IN  IF difference >= TrimThreshold THEN Tail(pool) ELSE pool

\* emplace_back may throw bad_alloc; the catch block drops the error and, with
\* it, the resource.
CFencePool_ReturnToPool(pool, Resource, FenceValue, bad_alloc) ==
    IF bad_alloc THEN pool ELSE Append(pool, <<FenceValue, Resource>>)

\* fresh is what pfnCreateNew(CreationArgs...) returns when it is called.
CFencePool_RetrieveFromPool(pool, CurrentFenceValue, fresh) ==
    IF pool = <<>> \/ CurrentFenceValue < Head(pool)[1]
    THEN [pool |-> pool, ret |-> fresh, created |-> 1]
    ELSE [pool |-> Tail(pool), ret |-> Head(pool)[2], created |-> 0]

CFencePool_Trim(pool, TrimThreshold, CurrentFenceValue) ==
    IF pool = <<>> \/ CurrentFenceValue < Head(pool)[1]
    THEN pool
    ELSE LET difference == CurrentFenceValue - Head(pool)[1]
         IN  IF difference >= TrimThreshold THEN Tail(pool) ELSE pool

\* The observer of the round trip: rets are the entries returned, in order, since
\* the pool was last empty; outs are the resources retrieved after them.
RtDead == [live |-> FALSE, rets |-> <<>>, outs |-> <<>>, created |-> 0]

RtOnReturn(r, v, bad_alloc) ==
    IF bad_alloc THEN RtDead
    ELSE IF m_Pool = <<>>
         THEN [live |-> TRUE, rets |-> <<<<v, r>>>>, outs |-> <<>>, created |-> 0]
         ELSE IF rt.live /\ rt.outs = <<>>
              THEN [rt EXCEPT !.rets = Append(@, <<v, r>>)]
              ELSE RtDead

RtOnRetrieve(c, res) ==
    IF /\ rt.live
       /\ Len(rt.outs) < Len(rt.rets)
       /\ c >= rt.rets[Len(rt.outs) + 1][1]
    THEN [rt EXCEPT !.outs = Append(@, res.ret), !.created = @ + res.created]
    ELSE RtDead

\* ReturnToPool(std::move(r), v): the caller gives up a resource it owns, with a
\* fence value that is not below the pool's largest one.
PoolReturn ==
    \E r \in held, v \in 1..MaxPoolFence, bad_alloc \in BOOLEAN :
        /\ \A f \in Fences(m_Pool) : f <= v
        /\ m_Pool' = CFencePool_ReturnToPool(m_Pool, r, v, bad_alloc)
        /\ held' = held \ {r}
        /\ poolLast' = [op |-> "Return", res |-> r, fence |-> v, threshold |-> 0,
                        bad_alloc |-> bad_alloc, pre |-> m_Pool, ret |-> 0,
                        created |-> 0, afterReturn |-> 0]
        /\ rt' = RtOnReturn(r, v, bad_alloc)
        /\ UNCHANGED numCreated

PoolRetrieve ==
    \E c \in 0..MaxPoolFence :
        LET res == CFencePool_RetrieveFromPool(m_Pool, c, numCreated + 1)
        IN  /\ numCreated + res.created <= MaxRes
            /\ m_Pool' = res.pool
            /\ held' = held \cup {res.ret}
            /\ numCreated' = numCreated + res.created
            /\ poolLast' = [op |-> "Retrieve", res |-> 0, fence |-> c, threshold |-> 0,
                            bad_alloc |-> FALSE, pre |-> m_Pool, ret |-> res.ret,
                            created |-> res.created,
                            afterReturn |->
                                IF /\ poolLast.op = "Return" /\ ~poolLast.bad_alloc
                                   /\ c >= poolLast.fence
                                THEN poolLast.res ELSE 0]
            /\ rt' = RtOnRetrieve(c, res)

PoolTrim ==
    \E t \in 0..MaxThreshold, c \in 0..MaxPoolFence :
        /\ m_Pool' = CFencePool_Trim(m_Pool, t, c)
        /\ poolLast' = [op |-> "Trim", res |-> 0, fence |-> c, threshold |-> t,
                        bad_alloc |-> FALSE, pre |-> m_Pool, ret |-> 0,
                        created |-> 0, afterReturn |-> 0]
        /\ rt' = RtDead
        /\ UNCHANGED <<held, numCreated>>

PoolInit ==
    /\ m_Pool = <<>>
    /\ held = {}
    /\ numCreated = 0
    /\ poolLast = [op |-> "new", res |-> 0, fence |-> 0, threshold |-> 0,
                   bad_alloc |-> FALSE, pre |-> <<>>, ret |-> 0,
                   created |-> 0, afterReturn |-> 0]
    /\ rt = [live |-> TRUE, rets |-> <<>>, outs |-> <<>>, created |-> 0]

(***************************************************************************)
(* CFencedRingBuffer                                                       *)
(***************************************************************************)
\* Mutants of the ring operations (each a plausible slip in the code).
Mutant_RingNew_HeadZero(size) ==
    [m_Head |-> 0, m_Tail |-> 0, m_Size |-> size,
     m_Ledger |-> [i \in 0..(cLedgerSize - 1) |-> [m_FenceValue |-> 0, m_NumAllocations |-> 0]],
     m_LedgerMask |-> {0}, m_LedgerIndex |-> 0]

Mutant_AllocateFit_NoCharge(r, NumItems) ==
    IF r.m_Tail + NumItems <= r.m_Head
    THEN [ring |-> [r EXCEPT !.m_Tail = @ + NumItems],
          hr |-> "S_OK", OffsetOut |-> r.m_Tail % r.m_Size]
    ELSE [ring |-> r, hr |-> "E_FAIL", OffsetOut |-> -1]

\* Mutant: the fit test lets the tail pass the head by one.
Mutant_AllocateFit_FitOffByOne(r, NumItems) ==
    IF r.m_Tail + NumItems <= r.m_Head + 1
    THEN [ring |-> [r EXCEPT !.m_Ledger[r.m_LedgerIndex].m_NumAllocations = @ + NumItems,
                             !.m_Tail = @ + NumItems],
          hr |-> "S_OK", OffsetOut |-> r.m_Tail % r.m_Size]
    ELSE [ring |-> r, hr |-> "E_FAIL", OffsetOut |-> -1]

Mutant_AllocateFit_OffsetAfter(r, NumItems) ==
    IF r.m_Tail + NumItems <= r.m_Head
    THEN [ring |-> [r EXCEPT !.m_Ledger[r.m_LedgerIndex].m_NumAllocations = @ + NumItems,
                             !.m_Tail = @ + NumItems],
          hr |-> "S_OK", OffsetOut |-> (r.m_Tail + NumItems) % r.m_Size]
    ELSE [ring |-> r, hr |-> "E_FAIL", OffsetOut |-> -1]

RECURSIVE Mutant_DeallocateFrom_StrictLess(_, _, _)
Mutant_DeallocateFrom_StrictLess(r, CompletedFenceValue, i) ==
    IF i >= cLedgerSize THEN r
    ELSE
      LET entry == r.m_Ledger[i]
          r1 == IF i \in r.m_LedgerMask /\ entry.m_FenceValue < CompletedFenceValue
                THEN [r EXCEPT !.m_Head = @ + entry.m_NumAllocations,
                               !.m_Ledger[i] = [m_FenceValue |-> 0, m_NumAllocations |-> 0],
                               !.m_LedgerMask = @ \ {i}]
                ELSE r
      IN  IF r1.m_LedgerMask = {} THEN r1
          ELSE Mutant_DeallocateFrom_StrictLess(r1, CompletedFenceValue, i + 1)

\* Releases the entries but leaves their bits set.
RECURSIVE Mutant_DeallocateFrom_KeepsBit(_, _, _)
Mutant_DeallocateFrom_KeepsBit(r, CompletedFenceValue, i) ==
    IF i >= cLedgerSize THEN r
    ELSE
      LET entry == r.m_Ledger[i]
          r1 == IF i \in r.m_LedgerMask /\ entry.m_FenceValue <= CompletedFenceValue
                THEN [r EXCEPT !.m_Head = @ + entry.m_NumAllocations,
                               !.m_Ledger[i] = [m_FenceValue |-> 0, m_NumAllocations |-> 0]]
                ELSE r
      IN  Mutant_DeallocateFrom_KeepsBit(r1, CompletedFenceValue, i + 1)

\* The padding only moves the tail; it is not charged to the ledger entry.
Mutant_Allocate_PaddingUncharged(r, NumItems, CurrentFenceValue) ==
    IF NumItems = 0
    THEN [ring |-> r, hr |-> "S_OK", OffsetOut |-> r.m_Tail % r.m_Size]
    ELSE
      LET moves == CurrentFenceValue > r.m_Ledger[r.m_LedgerIndex].m_FenceValue
          idx == (r.m_LedgerIndex + 1) % cLedgerSize
          mvFail == moves /\ idx \in r.m_LedgerMask
          r1 == IF ~moves THEN r
                ELSE IF mvFail THEN [r EXCEPT !.m_LedgerIndex = idx]
                ELSE [r EXCEPT !.m_LedgerIndex = idx,
                               !.m_LedgerMask = @ \cup {idx},
                               !.m_Ledger[idx] = [m_FenceValue |-> CurrentFenceValue,
                                                  m_NumAllocations |-> 0]]
          tailLocation == r1.m_Tail % r1.m_Size
          remainder == IF tailLocation + NumItems > r1.m_Size
                       THEN r1.m_Size - tailLocation ELSE 0
          padFail == r1.m_Tail + remainder > r1.m_Head
          r2 == [r1 EXCEPT !.m_Tail = @ + remainder]
      IN  IF mvFail \/ padFail
          THEN [ring |-> r1, hr |-> "E_FAIL", OffsetOut |-> -2]
          ELSE IF r2.m_Tail + NumItems <= r2.m_Head
               THEN [ring |-> [r2 EXCEPT !.m_Ledger[r2.m_LedgerIndex].m_NumAllocations
                                             = @ + NumItems,
                                         !.m_Tail = @ + NumItems],
                     hr |-> "S_OK", OffsetOut |-> r2.m_Tail % r2.m_Size]
               ELSE [ring |-> r2, hr |-> "E_FAIL", OffsetOut |-> -1]

LedgerEntry(fence, num) == [m_FenceValue |-> fence, m_NumAllocations |-> num]

\* CFencedRingBuffer(Size): m_Size(Size), m_Head(Size), m_Ledger{}, m_Tail = 0,
\* m_LedgerMask = 0x1, m_LedgerIndex = 0.  m_LedgerMask is the set of the set bits.
RingNew(size) ==
    [m_Head |-> size, m_Tail |-> 0, m_Size |-> size,
     m_Ledger |-> [i \in 0..(cLedgerSize - 1) |-> LedgerEntry(0, 0)],
     m_LedgerMask |-> {0}, m_LedgerIndex |-> 0]

DereferenceTail(r) == r.m_Tail % r.m_Size

GetCurrentLedgeEntry(r) == r.m_Ledger[r.m_LedgerIndex]

IsLedgerEntryAvailable(r, Index) == Index \notin r.m_LedgerMask

\* The index is advanced first; only then is the slot tested.
MoveToNextLedgerEntry(r, CurrentFenceValue) ==
    LET idx == (r.m_LedgerIndex + 1) % cLedgerSize
        r1 == [r EXCEPT !.m_LedgerIndex = idx]
    IN  IF IsLedgerEntryAvailable(r1, idx)
        THEN [ring |-> [r1 EXCEPT !.m_LedgerMask = @ \cup {idx},
                                  !.m_Ledger[idx] = LedgerEntry(CurrentFenceValue, 0)],
              hr |-> "S_OK"]
        ELSE [ring |-> r1, hr |-> "E_FAIL"]

\* The tail of Allocate (lines 292-304): the fit test and the bookkeeping.
AllocateFit(r, NumItems) ==
    IF r.m_Tail + NumItems <= r.m_Head
    THEN [ring |-> [r EXCEPT !.m_Ledger[r.m_LedgerIndex].m_NumAllocations = @ + NumItems,
                             !.m_Tail = @ + NumItems],
          hr |-> "S_OK", OffsetOut |-> DereferenceTail(r)]
    ELSE [ring |-> r, hr |-> "E_FAIL", OffsetOut |-> InvalidOffset]

RECURSIVE Allocate(_, _, _)
Allocate(r, NumItems, CurrentFenceValue) ==
    IF NumItems = 0
    THEN [ring |-> r, hr |-> "S_OK", OffsetOut |-> DereferenceTail(r)]
    ELSE
      LET mv == IF CurrentFenceValue > GetCurrentLedgeEntry(r).m_FenceValue
                THEN MoveToNextLedgerEntry(r, CurrentFenceValue)
                ELSE [ring |-> r, hr |-> "S_OK"]
      IN  IF mv.hr = "E_FAIL"
          THEN [ring |-> mv.ring, hr |-> "E_FAIL", OffsetOut |-> Unwritten]
          ELSE
            LET r1 == mv.ring
                tailLocation == DereferenceTail(r1)
                pad == IF tailLocation + NumItems > r1.m_Size
                       THEN Allocate(r1, r1.m_Size - tailLocation, CurrentFenceValue)
                       ELSE [ring |-> r1, hr |-> "S_OK", OffsetOut |-> Unwritten]
            IN  IF pad.hr = "E_FAIL"
                THEN [ring |-> pad.ring, hr |-> "E_FAIL", OffsetOut |-> Unwritten]
                ELSE AllocateFit(pad.ring, NumItems)

\* One pass of the loop of Deallocate at slot i, then the test that ends the loop.
RECURSIVE DeallocateFrom(_, _, _)
DeallocateFrom(r, CompletedFenceValue, i) ==
    IF i >= cLedgerSize THEN r
    ELSE
      LET entry == r.m_Ledger[i]
          r1 == IF i \in r.m_LedgerMask /\ entry.m_FenceValue <= CompletedFenceValue
                THEN [r EXCEPT !.m_Head = @ + entry.m_NumAllocations,
                               !.m_Ledger[i] = LedgerEntry(0, 0),
                               !.m_LedgerMask = @ \ {i}]
                ELSE r
      IN  IF r1.m_LedgerMask = {} THEN r1
          ELSE DeallocateFrom(r1, CompletedFenceValue, i + 1)

\* Mutant: only the current ledger entry is released.
Mutant_Deallocate_OnlyCurrentEntry(r, CompletedFenceValue) ==
    LET i == r.m_LedgerIndex
    IN  IF i \in r.m_LedgerMask /\ r.m_Ledger[i].m_FenceValue <= CompletedFenceValue
        THEN [r EXCEPT !.m_Head = @ + r.m_Ledger[i].m_NumAllocations,
                       !.m_Ledger[i] = LedgerEntry(0, 0),
                       !.m_LedgerMask = @ \ {i}]
        ELSE r

Deallocate(r, CompletedFenceValue) == DeallocateFrom(r, CompletedFenceValue, 0)

\* The caller of the ring.  Command-list ids never decrease and 0 is reserved for
\* "never touched", so the next fence value is the last one or the one after it.
\*   "mixed"  : any item count, any completed value, fences up to WideFence;
\*   "steady" : one item for each new command list, fences up to MaxFence,
\*              enough of them to fill the 16-entry ledger; a request that
\*              failed may be retried with the same fence value, at once or
\*              after a Deallocate that followed a failure on the ledger;
\*              completed values are 0, the oldest in use or the last one
\*              given out.
NextFences ==
    IF caller = "mixed"
    THEN {f \in 1..WideFence : fenceSeen <= f /\ f <= fenceSeen + 1}
    ELSE {f \in 1..MaxFence :
             \/ f = fenceSeen + 1
             \/ f = fenceSeen /\ ringLast.op = "Allocate" /\ ringLast.hr = "E_FAIL"
             \/ f = fenceSeen /\ ringLast.op = "Deallocate"
                /\ ringLast.ledgerPending > 0}

\* NumItems < m_Size / 2 (asserted at line 262)
ItemCounts ==
    IF caller = "mixed" THEN {n \in 0..Size : n < Size \div 2} ELSE {1}

\* What the observer keeps of an Allocate call: the arguments, the results and the
\* fields of the ring before the call that the call's contract is stated over.
AllocateRecord(r, n, f, res) ==
    LET moves == n > 0 /\ f > GetCurrentLedgeEntry(r).m_FenceValue
        ledgerFail == moves /\ MoveToNextLedgerEntry(r, f).hr = "E_FAIL"
    IN  [op |-> "Allocate", NumItems |-> n, fence |-> f,
         hr |-> res.hr, OffsetOut |-> res.OffsetOut,
         preTail |-> r.m_Tail, preHead |-> r.m_Head,
         preNum |-> IF moves THEN 0 ELSE GetCurrentLedgeEntry(r).m_NumAllocations,
         preFull |-> r.m_LedgerMask = 0..(cLedgerSize - 1),
         ledgerFail |-> ledgerFail,
         count |-> IF ringLast.count < 2 THEN ringLast.count + 1 ELSE 2,
         second |-> /\ ringLast.count = 1 /\ ringLast.op = "Allocate"
                    /\ ringLast.hr = "S_OK"
                    /\ ringLast.NumItems = Size \div 2 - 1 /\ n = Size \div 2 - 1
                    /\ ringLast.fence = f,
         afterDrain |-> /\ ringLast.op = "Deallocate" /\ ringLast.fence >= fenceSeen
                        /\ f > ringLast.fence,
         pendingN |-> 0,
         retry |-> /\ ringLast.op = "Deallocate" /\ ringLast.pendingN > 0
                   /\ ringLast.pendingN = n /\ f = fenceSeen,
         ledgerPending |-> 0,
         ledgerRetry |-> /\ ringLast.op = "Deallocate" /\ ringLast.ledgerPending > 0
                         /\ ringLast.ledgerPending = n /\ f = fenceSeen,
         allocUsed |-> -1]

\* The last call was an Allocate that returned Err after consuming the padding.
PaddingLeftBehind ==
    /\ ringLast.op = "Allocate" /\ ringLast.hr = "E_FAIL"
    /\ ring.m_Tail > ringLast.preTail

DeallocateRecord(c) ==
    [op |-> "Deallocate", NumItems |-> 0, fence |-> c,
     hr |-> "S_OK", OffsetOut |-> Unwritten,
     preTail |-> ring.m_Tail, preHead |-> ring.m_Head, preNum |-> 0,
     preFull |-> ring.m_LedgerMask = 0..(cLedgerSize - 1),
     ledgerFail |-> FALSE,
     count |-> IF ringLast.count < 2 THEN ringLast.count + 1 ELSE 2,
     second |-> FALSE, afterDrain |-> FALSE,
     pendingN |-> IF PaddingLeftBehind /\ c >= ringLast.fence
                  THEN ringLast.NumItems ELSE 0,
     retry |-> FALSE,
     \* the item count of the Allocate that this call follows, when that Allocate
     \* failed on the ledger and this call releases a ledger slot
     ledgerPending |-> IF /\ ringLast.op = "Allocate" /\ ringLast.ledgerFail
                          /\ Deallocate(ring, c).m_LedgerMask # ring.m_LedgerMask
                       THEN ringLast.NumItems ELSE 0,
     ledgerRetry |-> FALSE,
     \* tail - head before the Allocate that this call follows, when that Allocate
     \* succeeded and c covers its fence value
     allocUsed |-> IF /\ ringLast.op = "Allocate" /\ ringLast.hr = "S_OK"
                      /\ c >= ringLast.fence
                   THEN ringLast.preTail - (ringLast.preHead - Size) ELSE -1]

\* The slots of the range [OffsetOut, OffsetOut + NumItems) of the buffer.
Granted(OffsetOut, NumItems) ==
    {(OffsetOut + k) % Size : k \in 0..(NumItems - 1)}

\* The observer of the ranges: owner[s] is the fence value of the successful
\* Allocate that returned a range holding slot s, until a Deallocate with a
\* completed value >= that fence value is called, and 0 otherwise; overlap tells
\* whether the last call returned a range with a slot that had an owner.
RangesOnAllocate(n, f, res) ==
    IF res.hr = "S_OK" /\ n > 0
    THEN [owner |-> [s \in 0..(Size - 1) |->
                        IF s \in Granted(res.OffsetOut, n) THEN f ELSE ranges.owner[s]],
          overlap |-> \E s \in Granted(res.OffsetOut, n) : ranges.owner[s] # 0]
    ELSE [ranges EXCEPT !.overlap = FALSE]

RangesOnDeallocate(c) ==
    [owner |-> [s \in 0..(Size - 1) |->
                   IF ranges.owner[s] <= c THEN 0 ELSE ranges.owner[s]],
     overlap |-> FALSE]

RingAllocate ==
    \E n \in ItemCounts, f \in NextFences :
        LET res == Allocate(ring, n, f)
        IN  /\ res.ring.m_Tail <= MaxTail
            /\ ring' = res.ring
            /\ fenceSeen' = f
            /\ ringLast' = AllocateRecord(ring, n, f, res)
            /\ ranges' = RangesOnAllocate(n, f, res)
            /\ UNCHANGED caller

\* The completed values a caller passes: 0, a fence value of a ledger entry in use,
\* or the last fence value given out (a value between two of these releases the
\* same entries as the one below it).  The "steady" caller, whose command lists
\* complete one after the other, passes the oldest fence value in use only.
CompletedValues ==
    LET inUse == {ring.m_Ledger[i].m_FenceValue : i \in ring.m_LedgerMask}
    IN  IF caller = "mixed" THEN {0, fenceSeen} \cup inUse
        ELSE {0, fenceSeen} \cup {f \in inUse : \A g \in inUse : f <= g}

RingDeallocate ==
    \E c \in CompletedValues :
        /\ ring' = Deallocate(ring, c)
        /\ ringLast' = DeallocateRecord(c)
        /\ ranges' = RangesOnDeallocate(c)
        /\ UNCHANGED <<fenceSeen, caller>>

RingInit ==
    /\ ring = RingNew(Size)
    /\ caller \in {"mixed", "steady"}
    /\ fenceSeen = 0
    /\ ringLast = [op |-> "new", NumItems |-> 0, fence |-> 0,
                   hr |-> "S_OK", OffsetOut |-> Unwritten,
                   preTail |-> 0, preHead |-> Size, preNum |-> 0,
                   preFull |-> FALSE, ledgerFail |-> FALSE,
                   count |-> 0, second |-> FALSE, afterDrain |-> FALSE,
                   pendingN |-> 0, retry |-> FALSE, ledgerPending |-> 0,
                   ledgerRetry |-> FALSE, allocUsed |-> -1]
    /\ ranges = [owner |-> [s \in 0..(Size - 1) |-> 0], overlap |-> FALSE]

(***************************************************************************)
(* CDescriptorHeapManager                                                  *)
(* heapMgr holds m_Heaps, the free list (m_FreeList) of each page in page  *)
(* order, each a sequence of SFreeRange records, and m_FreeHeaps, the list *)
(* of the indices (from 0) of the pages that have free slots.              *)
(***************************************************************************)
SFreeRange(Start, End) == [Start |-> Start, End |-> End]

\* GetCPUDescriptorHandleForHeapStart of the heap at index: the heaps are
\* disjoint address ranges.
HeapBase(index) == (index + 1) * (NumDescriptorsPerHeap * m_DescriptorSize + 1)

\* The descriptor slots of the page at index, as handles.
PageSlots(index) ==
    {HeapBase(index) + k * m_DescriptorSize : k \in 0..(NumDescriptorsPerHeap - 1)}

NoHandle == 0    \* no handle was returned (the call threw)
Garbage == -1    \* a handle read from outside any free range

PopFront(s) == SubSeq(s, 2, Len(s))

\* Mutant: the start of the range is not advanced.
Mutant_TakeSlot_StartNotAdvanced(m) ==
    LET index == Head(m.m_FreeHeaps)
    IN  [mgr |-> m, Ret |-> m.m_Heaps[index + 1][1].Start, index |-> index,
         threw |-> FALSE]

\* AllocateHeap: fail is "none", "com_error" (CreateDescriptorHeap failed),
\* "bad_alloc" (thrown at line 517 or 520, before the manager is touched) or
\* "bad_alloc_index" (thrown at line 521, after the page was registered).
AllocateHeap(m, fail) ==
    LET index == Len(m.m_Heaps)
        NewEntry == <<SFreeRange(HeapBase(index),
                          HeapBase(index) + NumDescriptorsPerHeap * m_DescriptorSize)>>
    IN  CASE fail = "none" ->
                [mgr |-> [m_Heaps |-> Append(m.m_Heaps, NewEntry),
                          m_FreeHeaps |-> Append(m.m_FreeHeaps, index)],
                 threw |-> FALSE]
          [] fail = "bad_alloc_index" ->
                [mgr |-> [m EXCEPT !.m_Heaps = Append(@, NewEntry)], threw |-> TRUE]
          [] OTHER -> [mgr |-> m, threw |-> TRUE]

\* Lines 432-451: the slot is taken from the first range of the first free page.
TakeSlot(m) ==
    LET index == Head(m.m_FreeHeaps)
        FreeList == m.m_Heaps[index + 1]
        Range == [FreeList[1] EXCEPT !.Start = @ + m_DescriptorSize]
        list1 == IF Range.Start = Range.End
                 THEN PopFront(FreeList)
                 ELSE [FreeList EXCEPT ![1] = Range]
    IN  [mgr |-> [m_Heaps |-> [m.m_Heaps EXCEPT ![index + 1] = list1],
                  m_FreeHeaps |-> IF list1 = <<>> THEN PopFront(m.m_FreeHeaps)
                                  ELSE m.m_FreeHeaps],
         Ret |-> FreeList[1].Start, index |-> index, threw |-> FALSE]

\* m_FreeHeaps.front() names a page whose free list is empty: the asserts of lines
\* 431 and 434 do not hold and begin() is dereferenced on an empty list.
FrontPageIsEmpty(m) ==
    m.m_FreeHeaps # <<>> /\ m.m_Heaps[Head(m.m_FreeHeaps) + 1] = <<>>

AllocateHeapSlot(m, fail) ==
    LET grown == IF m.m_FreeHeaps = <<>> THEN AllocateHeap(m, fail)
                 ELSE [mgr |-> m, threw |-> FALSE]
    IN  IF grown.threw
        THEN [mgr |-> grown.mgr, Ret |-> NoHandle, index |-> -1, threw |-> TRUE]
        ELSE TakeSlot(grown.mgr)

\* Mutant: the branch that extends a range to the right is missing.
RECURSIVE Mutant_FreeScan_NoExtendRight(_, _, _, _)
Mutant_FreeScan_NoExtendRight(FreeList, it, ptr, oom) ==
    IF it > Len(FreeList)
    THEN [list |-> FreeList, bFound |-> FALSE, threw |-> FALSE]
    ELSE
      LET Range == FreeList[it]
      IN  IF Range.Start = ptr + m_DescriptorSize
          THEN [list |-> [FreeList EXCEPT ![it].Start = ptr],
                bFound |-> TRUE, threw |-> FALSE]
          ELSE IF Range.Start > ptr
          THEN IF oom = 1
               THEN [list |-> FreeList, bFound |-> FALSE, threw |-> TRUE]
               ELSE [list |-> SubSeq(FreeList, 1, it - 1)
                                \o <<SFreeRange(ptr, ptr + m_DescriptorSize)>>
                                \o SubSeq(FreeList, it, Len(FreeList)),
                     bFound |-> TRUE, threw |-> FALSE]
          ELSE Mutant_FreeScan_NoExtendRight(FreeList, it + 1, ptr, oom)

\* The loop of FreeHeapSlot (lines 468-494) from position it of the free list.
\* oom is the ordinal of the bookkeeping allocation of this call that throws
\* bad_alloc (0: none does).
RECURSIVE FreeScan(_, _, _, _)
FreeScan(FreeList, it, ptr, oom) ==
    IF it > Len(FreeList)
    THEN [list |-> FreeList, bFound |-> FALSE, threw |-> FALSE]
    ELSE
      LET Range == FreeList[it]
      IN  IF Range.Start = ptr + m_DescriptorSize
          THEN [list |-> [FreeList EXCEPT ![it].Start = ptr],
                bFound |-> TRUE, threw |-> FALSE]
          ELSE IF Range.End = ptr
          THEN [list |-> [FreeList EXCEPT ![it].End = @ + m_DescriptorSize],
                bFound |-> TRUE, threw |-> FALSE]
          ELSE IF Range.Start > ptr
          THEN IF oom = 1
               THEN [list |-> FreeList, bFound |-> FALSE, threw |-> TRUE]
               ELSE [list |-> SubSeq(FreeList, 1, it - 1)
                                \o <<SFreeRange(ptr, ptr + m_DescriptorSize)>>
                                \o SubSeq(FreeList, it, Len(FreeList)),
                     bFound |-> TRUE, threw |-> FALSE]
          ELSE FreeScan(FreeList, it + 1, ptr, oom)

\* Mutant: the page index is put at the front of the free-page list.
Mutant_AddFreeHeap_PushFront(FreeHeaps, index) == <<index>> \o FreeHeaps

\* m_FreeHeaps.push_back(index), line 500
AddFreeHeap(FreeHeaps, index) == Append(FreeHeaps, index)

\* FreeHeapSlot: the result is the manager after the call and whether bad_alloc was
\* caught (the caller sees nothing of it).
FreeHeapSlot(m, ptr, index, oom) ==
    LET FreeList == m.m_Heaps[index + 1]
        scan == FreeScan(FreeList, 1, ptr, oom)
        NewRange == SFreeRange(ptr, ptr + m_DescriptorSize)
    IN  IF scan.threw THEN [mgr |-> m, caught |-> TRUE]
        ELSE IF scan.bFound
        THEN [mgr |-> [m EXCEPT !.m_Heaps[index + 1] = scan.list], caught |-> FALSE]
        ELSE IF FreeList = <<>>
        THEN IF oom = 1 THEN [mgr |-> m, caught |-> TRUE]
             ELSE LET m1 == [m EXCEPT !.m_FreeHeaps = AddFreeHeap(@, index)]
                  IN  IF oom = 2 THEN [mgr |-> m1, caught |-> TRUE]
                      ELSE [mgr |-> [m1 EXCEPT !.m_Heaps[index + 1] = <<NewRange>>],
                            caught |-> FALSE]
        ELSE IF oom = 1 THEN [mgr |-> m, caught |-> TRUE]
             ELSE [mgr |-> [m EXCEPT !.m_Heaps[index + 1] = Append(FreeList, NewRange)],
                   caught |-> FALSE]

\* The number of bookkeeping allocations FreeHeapSlot makes for this call.
FreeAllocations(m, ptr, index) ==
    LET FreeList == m.m_Heaps[index + 1]
        scan == FreeScan(FreeList, 1, ptr, 0)
    IN  IF scan.bFound
        THEN IF Len(scan.list) > Len(FreeList) THEN 1 ELSE 0
        ELSE IF FreeList = <<>> THEN 2 ELSE 1

AllocateFailures == {"none", "com_error", "bad_alloc", "bad_alloc_index"}

HeldPtrs == {h.ptr : h \in heldSlots}

\* The scenario "allocate four handles from a new manager, then free the second,
\* the third, the first and the fourth": scenario counts the calls of it made so
\* far, and is -1 once a call departed from it.
ScenarioFrees == <<2, 3, 1, 4>>

ScenarioOnAllocate(res) ==
    IF scenario >= 0 /\ scenario < Len(ScenarioFrees) /\ ~res.threw
    THEN scenario + 1 ELSE -1

ScenarioOnFree(h, caught) ==
    LET k == scenario - Len(ScenarioFrees) + 1
    IN  IF /\ scenario >= Len(ScenarioFrees)
           /\ k <= Len(ScenarioFrees)
           /\ ~caught
           /\ h.index = 0
           /\ h.ptr = HeapBase(0) + (ScenarioFrees[k] - 1) * m_DescriptorSize
        THEN scenario + 1 ELSE -1

\* What the observer keeps of an AllocateHeapSlot call.  again is the handle of
\* the allocate-free pair this call follows (NoHandle if it follows none), and
\* againBehind tells that the free of that pair put the page back behind others.
HeapAllocateRecord(res, ub) ==
    [op |-> "Allocate", Ret |-> res.Ret, index |-> res.index, threw |-> res.threw,
     caught |-> FALSE, ub |-> ub,
     wasHeld |-> res.Ret \in HeldPtrs,
     again |-> IF heapLast.op = "Free" THEN heapLast.pair ELSE NoHandle,
     againBehind |-> heapLast.op = "Free" /\ heapLast.behind,
     pair |-> NoHandle, behind |-> FALSE]

HeapFreeRecord(h, res) ==
    LET isPair == /\ heapLast.op = "Allocate" /\ ~heapLast.threw /\ ~heapLast.ub
                  /\ heapLast.Ret = h.ptr /\ ~res.caught
    IN  [op |-> "Free", Ret |-> h.ptr, index |-> h.index, threw |-> FALSE,
         caught |-> res.caught, ub |-> FALSE, wasHeld |-> TRUE,
         again |-> NoHandle, againBehind |-> FALSE,
         pair |-> IF isPair THEN h.ptr ELSE NoHandle,
         behind |-> /\ isPair
                    /\ heapMgr.m_FreeHeaps # <<>>
                    /\ \A i \in 1..Len(heapMgr.m_FreeHeaps) :
                           heapMgr.m_FreeHeaps[i] # h.index]

\* AllocateHeapSlot(&index) on a manager whose asserts hold, with the failures
\* the environment may produce.  The caller holds at most MaxHeld handles and at
\* most MaxOom bookkeeping allocations fail in a run; a heap is created only when
\* no page has a free slot, which bounds the pages.
HeapAllocateWith(failures) ==
    /\ ~aborted
    /\ ~FrontPageIsEmpty(heapMgr)
    /\ \E fail \in failures :
        LET res == AllocateHeapSlot(heapMgr, fail)
        IN  /\ fail # "none" => heapMgr.m_FreeHeaps = <<>>
            /\ fail \in {"bad_alloc", "bad_alloc_index"} => numOom < MaxOom
            /\ ~res.threw => Cardinality(heldSlots) < MaxHeld
            /\ heapMgr' = res.mgr
            /\ heldSlots' = IF res.threw THEN heldSlots
                            ELSE heldSlots \cup {[ptr |-> res.Ret, index |-> res.index]}
            /\ numOom' = IF fail \in {"bad_alloc", "bad_alloc_index"}
                         THEN numOom + 1 ELSE numOom
            /\ heapLast' = HeapAllocateRecord(res, FALSE)
            /\ scenario' = ScenarioOnAllocate(res)
            /\ UNCHANGED aborted

\* AllocateHeapSlot when the front page's free list is empty.  With asserts
\* compiled in the program stops at line 434.  Without them Range refers to no
\* element of the list: the handle returned is garbage, and the manager is left
\* as it was or, when the garbage Start and End compare equal, loses the front
\* index of m_FreeHeaps.
HeapAllocateUndefined ==
    /\ ~aborted
    /\ FrontPageIsEmpty(heapMgr)
    /\ \E outcome \in {"assert", "garbage", "garbage_pop"} :
        /\ aborted' = (outcome = "assert")
        /\ heapMgr' = IF outcome = "garbage_pop"
                      THEN [heapMgr EXCEPT !.m_FreeHeaps = PopFront(@)]
                      ELSE heapMgr
        /\ heapLast' = HeapAllocateRecord(
                          [Ret |-> Garbage, index |-> Head(heapMgr.m_FreeHeaps),
                           threw |-> FALSE], TRUE)
        /\ scenario' = -1
        /\ UNCHANGED <<heldSlots, numOom>>

\* FreeHeapSlot(h, index) for a handle the caller holds, with the page index it
\* was given with it; ooms are the failures the environment may produce.
HeapFreeWith(ooms) ==
    /\ ~aborted
    /\ \E h \in heldSlots, oom \in ooms :
        LET res == FreeHeapSlot(heapMgr, h.ptr, h.index, oom)
        IN  /\ oom <= FreeAllocations(heapMgr, h.ptr, h.index)
            /\ oom > 0 => numOom < MaxOom
            /\ heapMgr' = res.mgr
            /\ heldSlots' = heldSlots \ {h}
            /\ numOom' = IF oom > 0 THEN numOom + 1 ELSE numOom
            /\ heapLast' = HeapFreeRecord(h, res)
            /\ scenario' = ScenarioOnFree(h, res.caught)
            /\ UNCHANGED aborted

\* Every allocation of the device and of the C++ runtime succeeds.
HeapAllocateOk == HeapAllocateWith({"none"})
HeapFreeOk == HeapFreeWith({0})

\* Heap creation and bookkeeping allocations may fail.
HeapAllocate == HeapAllocateWith(AllocateFailures)
HeapFree == HeapFreeWith(0..2)

HeapInit ==
    /\ heapMgr = [m_Heaps |-> <<>>, m_FreeHeaps |-> <<>>]
    /\ heldSlots = {}
    /\ numOom = 0
    /\ aborted = FALSE
    /\ scenario = 0
    /\ heapLast = [op |-> "new", Ret |-> NoHandle, index |-> -1, threw |-> FALSE,
                   caught |-> FALSE, ub |-> FALSE, wasHeld |-> FALSE,
                   again |-> NoHandle, againBehind |-> FALSE,
                   pair |-> NoHandle, behind |-> FALSE]

(***************************************************************************)
(* RetiredObject and DeferredDeletionQueueManager                          *)
(* queueMgr holds the two std::queue members.  The header declares         *)
(* ReadyToDestroy, DeferredWaitsSatisfied and TrimDeletedObjects without   *)
(* their bodies: these follow the design document (section 4.6).           *)
(* completed[t] is GetCompletedFenceValue(t) of the parent context and     *)
(* extCompleted the completed value of the fence deferred waits refer to.  *)
(***************************************************************************)
CommandListTypes == {"GRAPHICS", "COMPUTE"}

DeferredWait(value) == [fence |-> "F_user", value |-> value]

\* Mutant: the fence value is not recorded.
Mutant_RetiredObject_NoID(CommandListType, lastCommandListID, completionRequired, deferredWaits) ==
    [m_lastCommandListIDs |-> [t \in CommandListTypes |-> 0],
     m_completionRequired |-> completionRequired,
     m_deferredWaits |-> deferredWaits]

\* Mutant: the fence value recorded is the one after the value passed.
Mutant_RetiredObject_NextID(CommandListType, lastCommandListID, completionRequired, deferredWaits) ==
    [m_lastCommandListIDs |->
        [t \in CommandListTypes |->
            IF t = CommandListType THEN lastCommandListID + 1 ELSE 0],
     m_completionRequired |-> completionRequired,
     m_deferredWaits |-> deferredWaits]

\* Mutant: the deferred waits are not kept.
Mutant_RetiredObject_DropsWaits(CommandListType, lastCommandListID, completionRequired, deferredWaits) ==
    [m_lastCommandListIDs |->
        [t \in CommandListTypes |-> IF t = CommandListType THEN lastCommandListID ELSE 0],
     m_completionRequired |-> completionRequired,
     m_deferredWaits |-> <<>>]

\* RetiredObject(CommandListType, lastCommandListID, completionRequired, deferredWaits)
RetiredObject(CommandListType, lastCommandListID, completionRequired, deferredWaits) ==
    [m_lastCommandListIDs |->
        [t \in CommandListTypes |-> IF t = CommandListType THEN lastCommandListID ELSE 0],
     m_completionRequired |-> completionRequired,
     m_deferredWaits |-> deferredWaits]

\* RetiredObject(lastCommandListIDs[], completionRequired, deferredWaits)
RetiredObjectOfIDs(lastCommandListIDs, completionRequired, deferredWaits) ==
    [m_lastCommandListIDs |-> lastCommandListIDs,
     m_completionRequired |-> completionRequired,
     m_deferredWaits |-> deferredWaits]

\* RetiredD3D12Object and RetiredSuballocationBlock: a RetiredObject together with
\* what is retired (m_pUnderlying, m_SuballocatedBlock).  The retired thing is
\* named by what its owner knows of it: the fence values it was last touched
\* with, whether its completion is required, and the waits attached to it.
Underlying(lastCommandListIDs, completionRequired, deferredWaits) ==
    [touched |-> lastCommandListIDs, completionRequired |-> completionRequired,
     waits |-> deferredWaits]

RetiredD3D12Object(pUnderlying, retired) ==
    [m_pUnderlying |-> pUnderlying,
     m_lastCommandListIDs |-> retired.m_lastCommandListIDs,
     m_completionRequired |-> retired.m_completionRequired,
     m_deferredWaits |-> retired.m_deferredWaits]

RetiredSuballocationBlock(block, retired) ==
    [m_pUnderlying |-> block,
     m_lastCommandListIDs |-> retired.m_lastCommandListIDs,
     m_completionRequired |-> retired.m_completionRequired,
     m_deferredWaits |-> retired.m_deferredWaits]

\* The array a caller of the one-type overloads has in mind.
OneID(CommandListType, lastCommandListID) ==
    [t \in CommandListTypes |-> IF t = CommandListType THEN lastCommandListID ELSE 0]

\* Every deferred wait is satisfied: its fence has reached its value.
DeferredWaitsSatisfied(deferredWaits, ext) ==
    \A i \in 1..Len(deferredWaits) : ext >= deferredWaits[i].value

\* The ready-to-destroy predicate: every command-list type that touched the
\* object has completed its value (waived on teardown when completion is not
\* required), and the deferred waits are satisfied.
ReadyToDestroy(obj, done, ext, deviceBeingDestroyed) ==
    /\ \A t \in CommandListTypes :
          obj.m_lastCommandListIDs[t] > 0 =>
              \/ done[t] >= obj.m_lastCommandListIDs[t]
              \/ (~obj.m_completionRequired /\ deviceBeingDestroyed)
    /\ DeferredWaitsSatisfied(obj.m_deferredWaits, ext)

\* While the head of the queue is ready to destroy, pop and destroy it.
RECURSIVE TrimQueue(_, _, _, _)
TrimQueue(queue, done, ext, deviceBeingDestroyed) ==
    IF queue # <<>> /\ ReadyToDestroy(Head(queue), done, ext, deviceBeingDestroyed)
    THEN LET rest == TrimQueue(Tail(queue), done, ext, deviceBeingDestroyed)
         IN  [queue |-> rest.queue, destroyed |-> <<Head(queue)>> \o rest.destroyed]
    ELSE [queue |-> queue, destroyed |-> <<>>]

\* TrimDeletedObjects(deviceBeingDestroyed): both queues are trimmed; the result
\* tells whether a non-empty queue remains.
TrimDeletedObjects(m, done, ext, deviceBeingDestroyed) ==
    LET objects == TrimQueue(m.m_DeferredObjectDeletionQueue, done, ext,
                             deviceBeingDestroyed)
        suballocations == TrimQueue(m.m_DeferredSuballocationDeletionQueue, done, ext,
                                    deviceBeingDestroyed)
    IN  [mgr |-> [m_DeferredObjectDeletionQueue |-> objects.queue,
                  m_DeferredSuballocationDeletionQueue |-> suballocations.queue],
         destroyed |-> objects.destroyed \o suballocations.destroyed,
         ret |-> objects.queue # <<>> \/ suballocations.queue # <<>>]

\* Mutant: the destructor leaves the queues as they are.
Mutant_Destructor_NoTrim(m, done, ext) ==
    [mgr |-> m, destroyed |-> <<>>,
     ret |-> \/ m.m_DeferredObjectDeletionQueue # <<>>
             \/ m.m_DeferredSuballocationDeletionQueue # <<>>]

\* Mutant: the destructor trims as an ordinary call does.
Mutant_Destructor_OrdinaryTrim(m, done, ext) == TrimDeletedObjects(m, done, ext, FALSE)

\* ~DeferredDeletionQueueManager() { TrimDeletedObjects(true); }
Destructor(m, done, ext) == TrimDeletedObjects(m, done, ext, TRUE)

\* AddObjectToQueue, both overloads: the retired object is pushed.
AddObjectToQueue(m, obj) ==
    [mgr |-> [m EXCEPT !.m_DeferredObjectDeletionQueue = Append(@, obj)],
     destroyed |-> <<>>]

\* Mutant: a block that is ready to destroy is destroyed at once and pushed too.
Mutant_AddSuballocation_DestroysAndPushes(m, obj, done, ext) ==
    [mgr |-> [m EXCEPT !.m_DeferredSuballocationDeletionQueue = Append(@, obj)],
     destroyed |-> IF ReadyToDestroy(obj, done, ext, FALSE) THEN <<obj>> ELSE <<>>]

\* AddSuballocationToQueue, both overloads: a block that is ready to destroy is
\* destroyed at once, any other is pushed.
AddSuballocationToQueue(m, obj, done, ext) ==
    IF ~ReadyToDestroy(obj, done, ext, FALSE)
    THEN [mgr |-> [m EXCEPT !.m_DeferredSuballocationDeletionQueue = Append(@, obj)],
          destroyed |-> <<>>]
    ELSE [mgr |-> m, destroyed |-> <<obj>>]

\* The inputs of a retirement.  A run retires
\*   "typed"   : objects touched by any of the command-list types, whose
\*               completion is required, without deferred waits, or
\*   "waiting" : objects touched by one command-list type, required or not,
\*               with or without a deferred wait, or
\*   "pumped"  : objects touched by one command-list type, whose completion
\*               is required, with or without a deferred wait.
RetireIDs == 0..MaxCmdFence
RetireTypes == IF retirer = "typed" THEN CommandListTypes ELSE {"GRAPHICS"}
RetireRequired == IF retirer = "waiting" THEN BOOLEAN ELSE {TRUE}
RetireWaits ==
    IF retirer = "typed" THEN {<<>>}
    ELSE {<<>>} \cup {<<DeferredWait(v)>> : v \in 1..MaxExtFence}
QueuedItems(m) ==
    Len(m.m_DeferredObjectDeletionQueue) + Len(m.m_DeferredSuballocationDeletionQueue)

QueueRecord(op, deviceBeingDestroyed, res) ==
    [op |-> op, deviceBeingDestroyed |-> deviceBeingDestroyed,
     destroyed |-> res.destroyed]

\* AddObjectToQueue(pUnderlying, pResidencyHandle, type, id, completionRequired, waits)
QueueAddObject ==
    /\ ~destructed
    /\ QueuedItems(queueMgr) < MaxQueue
    /\ \E t \in RetireTypes, id \in RetireIDs, completionRequired \in RetireRequired,
          deferredWaits \in RetireWaits :
        LET res == AddObjectToQueue(queueMgr,
                       RetiredD3D12Object(
                           Underlying(OneID(t, id), completionRequired, deferredWaits),
                           RetiredObject(t, id, completionRequired, deferredWaits)))
        IN  /\ queueMgr' = res.mgr
            /\ queueLast' = QueueRecord("AddObject", FALSE, res)
            /\ UNCHANGED <<completed, extCompleted, destructed, retirer>>

\* AddObjectToQueue(pUnderlying, pResidencyHandle, ids[], completionRequired, waits)
QueueAddObjectOfIDs ==
    /\ ~destructed
    /\ QueuedItems(queueMgr) < MaxQueue
    /\ \E ids \in [CommandListTypes -> RetireIDs], completionRequired \in RetireRequired,
          deferredWaits \in RetireWaits :
        LET res == AddObjectToQueue(queueMgr,
                       RetiredD3D12Object(
                           Underlying(ids, completionRequired, deferredWaits),
                           RetiredObjectOfIDs(ids, completionRequired, deferredWaits)))
        IN  /\ \A t \in CommandListTypes \ RetireTypes : ids[t] = 0
            /\ queueMgr' = res.mgr
            /\ queueLast' = QueueRecord("AddObject", FALSE, res)
            /\ UNCHANGED <<completed, extCompleted, destructed, retirer>>

\* AddSuballocationToQueue(suballocation, parentAllocator, type, id): a retired
\* suballocation requires completion and has no deferred waits (lines 650-658).
QueueAddSuballocation ==
    /\ ~destructed
    /\ QueuedItems(queueMgr) < MaxQueue
    /\ \E t \in RetireTypes, id \in RetireIDs :
        LET res == AddSuballocationToQueue(queueMgr,
                       RetiredSuballocationBlock(
                           Underlying(OneID(t, id), TRUE, <<>>),
                           RetiredObject(t, id, TRUE, <<>>)),
                       completed, extCompleted)
        IN  /\ queueMgr' = res.mgr
            /\ queueLast' = QueueRecord("AddSuballocation", FALSE, res)
            /\ UNCHANGED <<completed, extCompleted, destructed, retirer>>

\* TrimDeletedObjects(), deviceBeingDestroyed = false
QueueTrim ==
    /\ ~destructed
    /\ LET res == TrimDeletedObjects(queueMgr, completed, extCompleted, FALSE)
       IN  /\ queueMgr' = res.mgr
           /\ queueLast' = QueueRecord("Trim", FALSE, res)
    /\ UNCHANGED <<completed, extCompleted, destructed, retirer>>

\* ~DeferredDeletionQueueManager()
QueueDestructor ==
    /\ ~destructed
    /\ LET res == Destructor(queueMgr, completed, extCompleted)
       IN  /\ queueMgr' = res.mgr
           /\ queueLast' = QueueRecord("Destructor", TRUE, res)
    /\ destructed' = TRUE
    /\ UNCHANGED <<completed, extCompleted, retirer>>

\* The GPU completes a command list of type t.
FenceCompletes ==
    /\ ~destructed
    /\ \E t \in RetireTypes :
        /\ completed[t] < MaxCmdFence
        /\ completed' = [completed EXCEPT ![t] = @ + 1]
    /\ queueLast' = [queueLast EXCEPT !.op = "Fence", !.destroyed = <<>>]
    /\ UNCHANGED <<queueMgr, extCompleted, destructed, retirer>>

\* The fence of the deferred waits advances.
ExternalFenceCompletes ==
    /\ ~destructed
    /\ retirer # "typed"
    /\ extCompleted < MaxExtFence
    /\ extCompleted' = extCompleted + 1
    /\ queueLast' = [queueLast EXCEPT !.op = "Fence", !.destroyed = <<>>]
    /\ UNCHANGED <<queueMgr, completed, destructed, retirer>>

QueueNew ==
    /\ queueMgr = [m_DeferredObjectDeletionQueue |-> <<>>,
                   m_DeferredSuballocationDeletionQueue |-> <<>>]
    /\ completed = [t \in CommandListTypes |-> 0]
    /\ extCompleted = 0
    /\ destructed = FALSE
    /\ queueLast = [op |-> "new", deviceBeingDestroyed |-> FALSE, destroyed |-> <<>>]

QueueInit == QueueNew /\ retirer = "typed"

(***************************************************************************)
(* CBoundedFencePool<TResourceType> : public CFencePool<TResourceType>     *)
(* The pool is the m_Pool of the base class; ReturnToPool and Trim are the *)
(* inherited ones.  pfnWaitForFenceValue ends in one of three ways: the    *)
(* fence completed (it returns true), the device was lost (it returns      *)
(* false), or it throws.                                                   *)
(***************************************************************************)
WaitOutcomes == {"completed", "device_lost", "throw"}

\* The threads that call a pool shared between threads, and the owner of a lock
\* that no thread holds.
NoOwner == 0
Threads == {1, 2}

\* UINT_MAX, the default MaxInFlightDepth: all 32 bits set, written as the
\* signed value of that pattern (the numbers of the model have 32 bits).
UINT_MAX == -1

\* Mutant: the depth is compared as a signed number.
Mutant_SizeBelowDepth_Signed(size, depth) == size < depth

\* m_Pool.size() < m_MaxInFlightDepth, a comparison of unsigned numbers: a
\* depth with the top bit set is above every size the model reaches.
SizeBelowDepth(size, depth) ==
    IF depth < 0 THEN size >= 0 ELSE size < depth

BoundedCreate(pool, fresh) ==
    [pool |-> pool, ret |-> fresh, created |-> 1, waited |-> <<>>, threw |-> FALSE]

BoundedPop(pool, waited) ==
    [pool |-> Tail(pool), ret |-> Head(pool)[2], created |-> 0, waited |-> waited,
     threw |-> FALSE]

\* Mutant: the depth test is <= instead of <.
Mutant_BoundedRetrieve_DepthOffByOne(pool, MaxInFlightDepth, CurrentFenceValue, fresh, wait) ==
    IF pool = <<>>
    THEN BoundedCreate(pool, fresh)
    ELSE IF CurrentFenceValue < Head(pool)[1]
         THEN IF Len(pool) <= MaxInFlightDepth
              THEN BoundedCreate(pool, fresh)
              ELSE IF wait = "throw"
                   THEN [pool |-> pool, ret |-> 0, created |-> 0,
                         waited |-> <<Head(pool)[1]>>, threw |-> TRUE]
                   ELSE BoundedPop(pool, <<Head(pool)[1]>>)
         ELSE BoundedPop(pool, <<>>)

\* Mutant: a head in flight is never waited for.
Mutant_BoundedRetrieve_NeverWaits(pool, MaxInFlightDepth, CurrentFenceValue, fresh, wait) ==
    IF pool = <<>> \/ CurrentFenceValue < Head(pool)[1]
    THEN BoundedCreate(pool, fresh)
    ELSE BoundedPop(pool, <<>>)

\* RetrieveFromPool(CurrentFenceValue, pfnWaitForFenceValue, pfnCreateNew, args...).
\* waited lists the values pfnWaitForFenceValue was called with; what it returns
\* is not looked at (line 134), so "completed" and "device_lost" go the same way.
CBoundedFencePool_RetrieveFromPool(pool, MaxInFlightDepth, CurrentFenceValue, fresh, wait) ==
    IF pool = <<>>
    THEN BoundedCreate(pool, fresh)
    ELSE IF CurrentFenceValue < Head(pool)[1]
         THEN IF SizeBelowDepth(Len(pool), MaxInFlightDepth)
              THEN BoundedCreate(pool, fresh)
              ELSE IF wait = "throw"
                   THEN [pool |-> pool, ret |-> 0, created |-> 0,
                         waited |-> <<Head(pool)[1]>>, threw |-> TRUE]
                   ELSE BoundedPop(pool, <<Head(pool)[1]>>)
         ELSE BoundedPop(pool, <<>>)

BoundedRecord(op, fence, wait, res) ==
    [op |-> op, fence |-> fence, wait |-> IF res.waited = <<>> THEN "none" ELSE wait,
     waited |-> res.waited, created |-> res.created, ret |-> res.ret,
     threw |-> res.threw]

NoRetrieve == [ret |-> 0, created |-> 0, waited |-> <<>>, threw |-> FALSE]

\* ReturnToPool(std::move(r), v), inherited from CFencePool.
BoundedReturn ==
    \E r \in held, v \in 1..MaxPoolFence, bad_alloc \in BOOLEAN :
        /\ \A f \in Fences(m_Pool) : f <= v
        /\ m_Pool' = CFencePool_ReturnToPool(m_Pool, r, v, bad_alloc)
        /\ held' = held \ {r}
        /\ boundedLast' = BoundedRecord("Return", v, "none", NoRetrieve)
        /\ UNCHANGED <<numCreated, poolLast, rt, m_MaxInFlightDepth, holding,
                       m_pLock, waiters>>

\* RetrieveFromPool by a caller that holds fewer than `holding` resources.
BoundedRetrieve ==
    /\ Cardinality(held) < holding
    /\ \E c \in 0..MaxPoolFence, wait \in WaitOutcomes :
        LET res == CBoundedFencePool_RetrieveFromPool(m_Pool, m_MaxInFlightDepth, c,
                                                      numCreated + 1, wait)
        IN  /\ numCreated + res.created <= MaxRes
            /\ m_Pool' = res.pool
            /\ held' = IF res.threw THEN held ELSE held \cup {res.ret}
            /\ numCreated' = numCreated + res.created
            /\ boundedLast' = BoundedRecord("Retrieve", c, wait, res)
    /\ UNCHANGED <<poolLast, rt, m_MaxInFlightDepth, holding, m_pLock, waiters>>

\* Trim(TrimThreshold, CurrentFenceValue), inherited from CFencePool.
BoundedTrim ==
    /\ \E t \in 0..MaxThreshold, c \in 0..MaxPoolFence :
          m_Pool' = CFencePool_Trim(m_Pool, t, c)
    /\ boundedLast' = BoundedRecord("Trim", 0, "none", NoRetrieve)
    /\ UNCHANGED <<held, numCreated, poolLast, rt, m_MaxInFlightDepth, holding,
                   m_pLock, waiters>>

\* CBoundedFencePool(bLock, MaxInFlightDepth)
NotWaiting == [pc |-> "idle", Head |-> <<>>]

BoundedNew ==
    /\ boundedLast = BoundedRecord("new", 0, "none", NoRetrieve)
    /\ m_pLock = NoOwner
    /\ waiters = [t \in Threads |-> NotWaiting]

BoundedInit == BoundedNew /\ m_MaxInFlightDepth = 0 /\ holding = 1

(***************************************************************************)
(* CMultiLevelPool<TResourceType, ResourceSizeMultiple>                    *)
(* A 64-bit size is written with base ResourceSizeMultiple: the size       *)
(* hi * ResourceSizeMultiple + lo is [hi |-> hi, lo |-> lo], with          *)
(* 0 <= lo < ResourceSizeMultiple.  The sizes of the model have            *)
(* hi < 2^31, so the quotient of IndexFromSize fits the UINT it is cast    *)
(* to; the product of line 197 does not always fit its UINT.               *)
(***************************************************************************)
ResourceSizeMultiple == 65536   \* 64*1024, TDynamicBufferPool
UintUnits == 65536              \* 2^32 / ResourceSizeMultiple: a UINT holds fewer multiples

Size64(hi, lo) == [hi |-> hi, lo |-> lo]

\* (Size == 0) ? 0 : (UINT)((Size - 1) / ResourceSizeMultiple), Size being ByteSize
IndexFromSize(ByteSize) ==
    IF ByteSize.hi = 0 /\ ByteSize.lo = 0 THEN 0
    ELSE IF ByteSize.lo = 0 THEN ByteSize.hi - 1 ELSE ByteSize.hi

\* UINT AlignedSize = (PoolIndex + 1) * ResourceSizeMultiple: the 64-bit product
\* is cut to the 32 bits of a UINT.
AlignedSizeOf(PoolIndex) == Size64((PoolIndex + 1) % UintUnits, 0)

\* m_Lock.TakeLock() returns once no other thread holds the lock.
CanTakeLock(lock) == lock = NoOwner

\* m_MultiPool.resize(PoolIndex + 1), when PoolIndex >= m_MultiPool.size()
Resize(mp, PoolIndex) ==
    IF PoolIndex >= Len(mp)
    THEN mp \o [i \in 1..(PoolIndex + 1 - Len(mp)) |-> <<>>]
    ELSE mp

\* Mutant: the vector is not grown; the entry goes to its last pool.
Mutant_MultiReturn_NoResize(mp, ByteSize, Resource, FenceValue, bad_alloc) ==
    LET grown == IF mp = <<>> THEN <<<<>>>> ELSE mp
        PoolIndex == IF IndexFromSize(ByteSize) >= Len(grown) THEN Len(grown) - 1
                     ELSE IndexFromSize(ByteSize)
    IN  [grown EXCEPT ![PoolIndex + 1] =
             CFencePool_ReturnToPool(@, Resource, FenceValue, bad_alloc)]

\* ReturnToPool(Size, std::move(Resource), FenceValue), Size being ByteSize
CMultiLevelPool_ReturnToPool(mp, ByteSize, Resource, FenceValue, bad_alloc) ==
    LET PoolIndex == IndexFromSize(ByteSize)
    IN  [Resize(mp, PoolIndex) EXCEPT ![PoolIndex + 1] =
             CFencePool_ReturnToPool(@, Resource, FenceValue, bad_alloc)]

\* Mutant: the lock is released in every path before the pool is looked at.
Mutant_Lookup_AlwaysUnlocks(mp, PoolIndex, CurrentFenceValue, t) ==
    IF PoolIndex >= Len(mp)
    THEN [pc |-> "create", found |-> "beyond", head |-> 0, lock |-> NoOwner]
    ELSE LET pool == mp[PoolIndex + 1]
         IN  IF pool = <<>> \/ CurrentFenceValue < Head(pool)[1]
             THEN [pc |-> "create",
                   found |-> IF pool = <<>> THEN "empty" ELSE "in_flight",
                   head |-> 0, lock |-> NoOwner]
             ELSE [pc |-> "erase", found |-> "head", head |-> Head(pool)[2],
                   lock |-> NoOwner]

\* Mutant: the lock is kept when the bucket is beyond the vector.
Mutant_Lookup_NeverUnlocks(mp, PoolIndex, CurrentFenceValue, t) ==
    IF PoolIndex >= Len(mp)
    THEN [pc |-> "create", found |-> "beyond", head |-> 0, lock |-> t]
    ELSE LET pool == mp[PoolIndex + 1]
         IN  IF pool = <<>> \/ CurrentFenceValue < Head(pool)[1]
             THEN [pc |-> "create",
                   found |-> IF pool = <<>> THEN "empty" ELSE "in_flight",
                   head |-> 0, lock |-> t]
             ELSE [pc |-> "erase", found |-> "head", head |-> Head(pool)[2],
                   lock |-> t]

\* RetrieveFromPool, from TakeLock to the decision: what thread t, holding the
\* lock, finds for PoolIndex, what it does next and who holds the lock then.
\*   "create": pfnCreateNew(AlignedSize) is called next; the lock was released
\*             only if the bucket is beyond the vector (lines 201-208);
\*   "erase" : the bucket's head can be reused (CFencePool::RetrieveFromPool,
\*             lines 45-52); it is erased and returned next.
RetrieveLookup(mp, PoolIndex, CurrentFenceValue, t) ==
    IF PoolIndex >= Len(mp)
    THEN [pc |-> "create", found |-> "beyond", head |-> 0, lock |-> NoOwner]
    ELSE LET pool == mp[PoolIndex + 1]
         IN  IF pool = <<>> \/ CurrentFenceValue < Head(pool)[1]
             THEN [pc |-> "create",
                   found |-> IF pool = <<>> THEN "empty" ELSE "in_flight",
                   head |-> 0, lock |-> t]
             ELSE [pc |-> "erase", found |-> "head", head |-> Head(pool)[2],
                   lock |-> t]

\* m_Pool.erase(Head), Head being the entry that holds resource head.
EraseEntry(pool, head) ==
    IF pool # <<>> /\ Head(pool)[2] = head
    THEN Tail(pool)
    ELSE SelectSeq(pool, LAMBDA entry : entry[2] # head)

\* Trim(CurrentFenceValue): every pool is trimmed with m_TrimThreshold.
CMultiLevelPool_Trim(mp, CurrentFenceValue) ==
    [i \in 1..Len(mp) |-> CFencePool_Trim(mp[i], m_TrimThreshold, CurrentFenceValue)]

\* The resources stored in the pools of mp.
Stored(mp) == UNION {Resources(mp[i]) : i \in 1..Len(mp)}

\* The sizes callers pass: those of the buckets 0..MaxBucket.
MultiSizes ==
    {Size64(hi, lo) : hi \in 0..(MaxBucket + 1), lo \in {0, 1}} \
        {Size64(MaxBucket + 1, 1)}

Idle == [pc |-> "idle", PoolIndex |-> 0, fence |-> 0, found |-> "none", head |-> 0]

\* Where a resource is: "held" by a caller, "pooled" (returned under bucket
\* index with fence), "released" (erased by Trim, or dropped by a ReturnToPool
\* that could not store it), or "twice": handed out by a retrieve call when it
\* was not pooled any more (handed out before, or released).
Life(state, index, fence) == [state |-> state, index |-> index, fence |-> fence]

HeldByCallers == {r \in 1..Len(life) : life[r].state = "held"}

Unlock(t) == IF m_Lock = t THEN NoOwner ELSE m_Lock

\* Thread t calls ReturnToPool(ByteSize, std::move(r), v), with v not below the
\* fences of the bucket.
MultiReturn(t) ==
    /\ threads[t].pc = "idle"
    /\ CanTakeLock(m_Lock)
    /\ \E r \in HeldByCallers, ByteSize \in MultiSizes, v \in 1..MaxMultiFence,
          bad_alloc \in BOOLEAN :
        /\ IndexFromSize(ByteSize) < Len(m_MultiPool) =>
               \A f \in Fences(m_MultiPool[IndexFromSize(ByteSize) + 1]) : f <= v
        /\ m_MultiPool' = CMultiLevelPool_ReturnToPool(m_MultiPool, ByteSize, r, v, bad_alloc)
        /\ life' = [life EXCEPT ![r] =
                        IF bad_alloc THEN Life("released", 0, 0)
                        ELSE Life("pooled", IndexFromSize(ByteSize), v)]
    /\ UNCHANGED <<m_Lock, threads, sizing>>

\* Thread t calls RetrieveFromPool(ByteSize, c, pfnCreateNew): it takes the lock and
\* looks at the bucket.
MultiRetrieve(t) ==
    /\ threads[t].pc = "idle"
    /\ CanTakeLock(m_Lock)
    /\ \E ByteSize \in MultiSizes, c \in 0..MaxMultiFence :
        LET res == RetrieveLookup(m_MultiPool, IndexFromSize(ByteSize), c, t)
        IN  /\ threads' = [threads EXCEPT ![t] =
                              IF res.pc = "create"
                              THEN [Idle EXCEPT !.pc = "create", !.found = res.found]
                              ELSE [pc |-> res.pc, PoolIndex |-> IndexFromSize(ByteSize),
                                    fence |-> c, found |-> res.found,
                                    head |-> res.head]]
            /\ m_Lock' = res.lock
    /\ UNCHANGED <<m_MultiPool, life, sizing>>

\* pfnCreateNew(AlignedSize) returns to thread t, which returns it to its caller.
MultiCreate(t) ==
    /\ threads[t].pc = "create"
    /\ Len(life) < MaxMultiRes
    /\ life' = Append(life, Life("held", 0, 0))
    /\ threads' = [threads EXCEPT ![t] = Idle]
    /\ m_Lock' = Unlock(t)
    /\ UNCHANGED <<m_MultiPool, sizing>>

\* pfnCreateNew throws (_com_error): thread t's call ends without a resource.
MultiCreateFails(t) ==
    /\ threads[t].pc = "create"
    /\ threads' = [threads EXCEPT ![t] = Idle]
    /\ m_Lock' = Unlock(t)
    /\ UNCHANGED <<m_MultiPool, life, sizing>>

\* Thread t moves the head's resource out, erases the head and returns it.
MultiErase(t) ==
    /\ threads[t].pc = "erase"
    /\ m_MultiPool' = [m_MultiPool EXCEPT ![threads[t].PoolIndex + 1] =
                           EraseEntry(@, threads[t].head)]
    /\ life' = [life EXCEPT ![threads[t].head] =
                        IF @.state = "pooled" THEN Life("held", 0, 0)
                        ELSE Life("twice", 0, 0)]
    /\ threads' = [threads EXCEPT ![t] = Idle]
    /\ m_Lock' = Unlock(t)
    /\ UNCHANGED sizing

\* Thread t calls Trim(c).
MultiTrim(t) ==
    /\ threads[t].pc = "idle"
    /\ CanTakeLock(m_Lock)
    /\ \E c \in 0..MaxMultiFence :
        /\ m_MultiPool' = CMultiLevelPool_Trim(m_MultiPool, c)
        /\ life' = [r \in 1..Len(life) |->
                       IF r \in Stored(m_MultiPool) \ Stored(m_MultiPool')
                       THEN Life("released", 0, 0)
                       ELSE life[r]]
    /\ UNCHANGED <<m_Lock, threads, sizing>>

\* The sizes whose bucket index and aligned size are computed: small ones, and
\* those around 2^32 bytes.
SizeInputs ==
    {Size64(hi, lo) :
        hi \in (0..SmallSize) \cup ((UintUnits - NearWrap)..(UintUnits + NearWrap)),
        lo \in (0..SmallSize) \cup
               ((ResourceSizeMultiple - SmallSize)..(ResourceSizeMultiple - 1))}

NotSized(ByteSize) ==
    [Size |-> ByteSize, applied |-> FALSE, PoolIndex |-> 0, AlignedSize |-> Size64(0, 0)]

\* Lines 196-197 of RetrieveFromPool, for the size at hand.
SizeApply ==
    /\ ~sizing.applied
    /\ sizing' = [Size |-> sizing.Size, applied |-> TRUE,
                  PoolIndex |-> IndexFromSize(sizing.Size),
                  AlignedSize |-> AlignedSizeOf(IndexFromSize(sizing.Size))]
    /\ UNCHANGED <<m_MultiPool, m_Lock, threads, life>>

\* CMultiLevelPool(TrimThreshold, bLock = true)
MultiNew ==
    /\ m_MultiPool = <<>>
    /\ m_Lock = NoOwner
    /\ threads = [t \in Threads |-> Idle]
    /\ life = <<>>

MultiInit == MultiNew /\ sizing = NotSized(Size64(0, 0))


(***************************************************************************)
(* CBoundedFencePool constructed with bLock = true and called by several   *)
(* threads.  Every operation takes *m_pLock in a std::unique_lock on entry  *)
(* and holds it until it returns or throws, so an operation that does not  *)
(* wait is one step; RetrieveFromPool on its wait path is two: up to the   *)
(* call of pfnWaitForFenceValue, and from its return.                      *)
(***************************************************************************)
\* Mutant: the lock is released before pfnWaitForFenceValue is called.
Mutant_LockDuringWait_Released(t) == NoOwner

\* The owner of *m_pLock while thread t is in pfnWaitForFenceValue: the
\* unique_lock of line 118 lives until RetrieveFromPool returns.
LockDuringWait(t) == t

\* A thread can enter an operation when it is in none and the lock is free.
CanEnter(t) == waiters[t].pc = "idle" /\ m_pLock = NoOwner

SharedReturn(t) ==
    /\ CanEnter(t)
    /\ BoundedReturn

SharedTrim(t) ==
    /\ CanEnter(t)
    /\ BoundedTrim

\* RetrieveFromPool on the paths that do not wait, and up to the call of
\* pfnWaitForFenceValue(Head->first) on the path that does.
SharedRetrieve(t) ==
    /\ CanEnter(t)
    /\ Cardinality(held) < holding
    /\ \E c \in 0..MaxPoolFence :
        LET res == CBoundedFencePool_RetrieveFromPool(m_Pool, m_MaxInFlightDepth, c,
                                                      numCreated + 1, "completed")
        IN  IF res.waited = <<>>
            THEN /\ numCreated + res.created <= MaxRes
                 /\ m_Pool' = res.pool
                 /\ held' = held \cup {res.ret}
                 /\ numCreated' = numCreated + res.created
                 /\ boundedLast' = BoundedRecord("Retrieve", c, "none", res)
                 /\ UNCHANGED <<m_pLock, waiters>>
            ELSE /\ m_pLock' = LockDuringWait(t)
                 /\ waiters' = [waiters EXCEPT ![t] =
                                   [pc |-> "waiting", Head |-> Head(m_Pool)]]
                 /\ UNCHANGED <<m_Pool, held, numCreated, boundedLast>>
    /\ UNCHANGED <<poolLast, rt, m_MaxInFlightDepth, holding>>

\* pfnWaitForFenceValue returns to thread t, or throws: on a return the entry
\* Head points at is moved out and erased (lines 138-141).  CurrentFenceValue is
\* not read after the wait and is not kept.
SharedWaitReturns(t) ==
    /\ waiters[t].pc = "waiting"
    /\ \E wait \in WaitOutcomes :
        LET head == waiters[t].Head
            res == IF wait = "throw"
                   THEN [pool |-> m_Pool, ret |-> 0, created |-> 0,
                         waited |-> <<head[1]>>, threw |-> TRUE]
                   ELSE [pool |-> EraseEntry(m_Pool, head[2]), ret |-> head[2],
                         created |-> 0, waited |-> <<head[1]>>, threw |-> FALSE]
        IN  /\ m_Pool' = res.pool
            /\ held' = IF res.threw THEN held ELSE held \cup {res.ret}
            /\ boundedLast' = BoundedRecord("Retrieve", 0, wait, res)
    /\ m_pLock' = IF m_pLock = t THEN NoOwner ELSE m_pLock
    /\ waiters' = [waiters EXCEPT ![t] = NotWaiting]
    /\ UNCHANGED <<numCreated, poolLast, rt, m_MaxInFlightDepth, holding>>


Init == PoolInit /\ RingInit /\ HeapInit /\ QueueInit /\ BoundedInit /\ MultiInit

RingNext ==
    \/ RingAllocate /\ UNCHANGED <<poolVars, heapVars, queueVars, boundedVars, multiVars>>
    \/ RingDeallocate /\ UNCHANGED <<poolVars, heapVars, queueVars, boundedVars, multiVars>>

SpecRing == Init /\ [][RingNext]_vars

PoolNext ==
    \/ PoolReturn /\ UNCHANGED <<ringVars, heapVars, queueVars, boundedVars, multiVars>>
    \/ PoolRetrieve /\ UNCHANGED <<ringVars, heapVars, queueVars, boundedVars, multiVars>>
    \/ PoolTrim /\ UNCHANGED <<ringVars, heapVars, queueVars, boundedVars, multiVars>>

\* The ring of a pool run is the ring of one caller: the pool does not read it.
InitPool == Init /\ caller = "mixed"

SpecPool == InitPool /\ [][PoolNext]_vars

\* The manager in an environment where no allocation fails ...
HeapNext ==
    \/ HeapAllocateOk /\ UNCHANGED <<poolVars, ringVars, queueVars, boundedVars, multiVars>>
    \/ HeapFreeOk /\ UNCHANGED <<poolVars, ringVars, queueVars, boundedVars, multiVars>>

SpecHeap == InitPool /\ [][HeapNext]_vars

\* ... and in one where heap creation and bookkeeping allocations may fail.
HeapOomNext ==
    \/ HeapAllocate /\ UNCHANGED <<poolVars, ringVars, queueVars, boundedVars, multiVars>>
    \/ HeapAllocateUndefined /\ UNCHANGED <<poolVars, ringVars, queueVars, boundedVars, multiVars>>
    \/ HeapFree /\ UNCHANGED <<poolVars, ringVars, queueVars, boundedVars, multiVars>>

SpecHeapOom == InitPool /\ [][HeapOomNext]_vars

QueueNext ==
    \/ QueueAddObject /\ UNCHANGED <<poolVars, ringVars, heapVars, boundedVars, multiVars>>
    \/ QueueAddObjectOfIDs /\ UNCHANGED <<poolVars, ringVars, heapVars, boundedVars, multiVars>>
    \/ QueueAddSuballocation /\ UNCHANGED <<poolVars, ringVars, heapVars, boundedVars, multiVars>>
    \/ QueueTrim /\ UNCHANGED <<poolVars, ringVars, heapVars, boundedVars, multiVars>>
    \/ QueueDestructor /\ UNCHANGED <<poolVars, ringVars, heapVars, boundedVars, multiVars>>
    \/ FenceCompletes /\ UNCHANGED <<poolVars, ringVars, heapVars, boundedVars, multiVars>>
    \/ ExternalFenceCompletes /\ UNCHANGED <<poolVars, ringVars, heapVars, boundedVars, multiVars>>

\* The other components are as constructed; the queue is driven by either kind
\* of retirer.
InitQueue ==
    /\ PoolInit /\ RingInit /\ caller = "mixed" /\ HeapInit /\ BoundedInit /\ MultiInit
    /\ QueueNew /\ retirer \in {"typed", "waiting"}

SpecQueue == InitQueue /\ [][QueueNext]_vars

\* The queue of a running device: TrimDeletedObjects is called again and again
\* (the core pumps it after every submission), the command lists submitted
\* complete and the fence of the deferred waits advances.
InitQueueLive ==
    /\ PoolInit /\ RingInit /\ caller = "mixed" /\ HeapInit /\ BoundedInit /\ MultiInit
    /\ QueueNew /\ retirer = "pumped"

SpecQueueLive ==
    /\ InitQueueLive /\ [][QueueNext]_vars
    /\ WF_queueVars(QueueTrim)
    /\ WF_queueVars(FenceCompletes)
    /\ WF_queueVars(ExternalFenceCompletes)

BoundedNext ==
    \/ BoundedReturn /\ UNCHANGED <<ringVars, heapVars, queueVars, multiVars>>
    \/ BoundedRetrieve /\ UNCHANGED <<ringVars, heapVars, queueVars, multiVars>>
    \/ BoundedTrim /\ UNCHANGED <<ringVars, heapVars, queueVars, multiVars>>

\* A bounded pool of any depth, used by a caller of any appetite.
InitBounded ==
    /\ PoolInit /\ RingInit /\ caller = "mixed" /\ HeapInit /\ QueueInit /\ MultiInit
    /\ BoundedNew
    /\ m_MaxInFlightDepth \in 0..MaxDepth
    /\ holding \in 1..MaxHolding

SpecBounded == InitBounded /\ [][BoundedNext]_vars

\* A bounded pool constructed with the default MaxInFlightDepth.
InitDefault ==
    /\ PoolInit /\ RingInit /\ caller = "mixed" /\ HeapInit /\ QueueInit /\ MultiInit
    /\ BoundedNew
    /\ m_MaxInFlightDepth = UINT_MAX
    /\ holding \in 1..MaxHolding

SpecDefault == InitDefault /\ [][BoundedNext]_vars

SharedNext ==
    \/ \E t \in Threads : SharedReturn(t) /\ UNCHANGED <<ringVars, heapVars, queueVars, multiVars>>
    \/ \E t \in Threads : SharedRetrieve(t) /\ UNCHANGED <<ringVars, heapVars, queueVars, multiVars>>
    \/ \E t \in Threads : SharedWaitReturns(t) /\ UNCHANGED <<ringVars, heapVars, queueVars, multiVars>>
    \/ \E t \in Threads : SharedTrim(t) /\ UNCHANGED <<ringVars, heapVars, queueVars, multiVars>>

\* A bounded pool constructed with bLock = true, called by the threads.
SpecShared == InitBounded /\ [][SharedNext]_vars

MultiNext ==
    \/ \E t \in Threads : MultiReturn(t) /\ UNCHANGED <<poolVars, ringVars, heapVars, queueVars, boundedVars>>
    \/ \E t \in Threads : MultiRetrieve(t) /\ UNCHANGED <<poolVars, ringVars, heapVars, queueVars, boundedVars>>
    \/ \E t \in Threads : MultiCreate(t) /\ UNCHANGED <<poolVars, ringVars, heapVars, queueVars, boundedVars>>
    \/ \E t \in Threads : MultiCreateFails(t) /\ UNCHANGED <<poolVars, ringVars, heapVars, queueVars, boundedVars>>
    \/ \E t \in Threads : MultiErase(t) /\ UNCHANGED <<poolVars, ringVars, heapVars, queueVars, boundedVars>>
    \/ \E t \in Threads : MultiTrim(t) /\ UNCHANGED <<poolVars, ringVars, heapVars, queueVars, boundedVars>>

SpecMulti == InitPool /\ [][MultiNext]_vars

\* std::terminate has ended the program: no thread runs any more.
Terminated == [pc |-> "terminated", PoolIndex |-> 0, fence |-> 0, found |-> "none", head |-> 0]

\* Thread t calls ReturnToPool(ByteSize, std::move(r), v) with a bucket index
\* beyond the vector, and m_MultiPool.resize(PoolIndex + 1) throws bad_alloc:
\* nothing catches it, the function is noexcept, so std::terminate is called
\* (with m_Lock held).
MultiReturnResizeFails(t) ==
    /\ threads[t].pc = "idle"
    /\ CanTakeLock(m_Lock)
    /\ \E r \in HeldByCallers, ByteSize \in MultiSizes :
          IndexFromSize(ByteSize) >= Len(m_MultiPool)
    /\ m_Lock' = t
    /\ threads' = [u \in Threads |-> Terminated]
    /\ UNCHANGED <<m_MultiPool, life, sizing>>

MultiOomNext ==
    \/ \E t \in Threads : MultiReturn(t) /\ UNCHANGED <<poolVars, ringVars, heapVars, queueVars, boundedVars>>
    \/ \E t \in Threads : MultiReturnResizeFails(t) /\ UNCHANGED <<poolVars, ringVars, heapVars, queueVars, boundedVars>>
    \/ \E t \in Threads : MultiRetrieve(t) /\ UNCHANGED <<poolVars, ringVars, heapVars, queueVars, boundedVars>>
    \/ \E t \in Threads : MultiCreate(t) /\ UNCHANGED <<poolVars, ringVars, heapVars, queueVars, boundedVars>>
    \/ \E t \in Threads : MultiCreateFails(t) /\ UNCHANGED <<poolVars, ringVars, heapVars, queueVars, boundedVars>>
    \/ \E t \in Threads : MultiErase(t) /\ UNCHANGED <<poolVars, ringVars, heapVars, queueVars, boundedVars>>
    \/ \E t \in Threads : MultiTrim(t) /\ UNCHANGED <<poolVars, ringVars, heapVars, queueVars, boundedVars>>

\* The multi-level pool with every allocation of ReturnToPool able to fail.
SpecMultiOom == InitPool /\ [][MultiOomNext]_vars

SizeNext == SizeApply /\ UNCHANGED <<poolVars, ringVars, heapVars, queueVars, boundedVars>>

\* The computation of lines 196-197, for each of the sizes tried.
InitSize ==
    /\ PoolInit /\ RingInit /\ caller = "mixed" /\ HeapInit /\ QueueInit /\ BoundedInit
    /\ MultiNew
    /\ \E ByteSize \in SizeInputs : sizing = NotSized(ByteSize)

SpecSize == InitSize /\ [][SizeNext]_vars

(***************************************************************************)
(* Claims about CFencePool (checked under SpecPool).                       *)
(***************************************************************************)

\* C1: RetrieveFromPool(completed, createNew) hands out a stored resource only when
\* the head entry's fence value is <= completed (and then it is the head's
\* resource); when the pool is empty or the head's fence is > completed it calls
\* createNew exactly once, returns the new resource and leaves the stored entries
\* unchanged.
C1_RetrieveHandsOutOnlyCompletedHead ==
    poolLast.op = "Retrieve" =>
        LET pre == poolLast.pre
            c == poolLast.fence
        IN  /\ poolLast.ret \in Resources(pre) =>
                /\ pre # <<>>
                /\ Head(pre)[1] <= c
                /\ poolLast.ret = Head(pre)[2]
                /\ poolLast.created = 0
            /\ (pre = <<>> \/ Head(pre)[1] > c) =>
                /\ poolLast.created = 1
                /\ poolLast.ret = numCreated
                /\ poolLast.ret \notin Resources(pre)
                /\ m_Pool = pre

\* C1 witness: a retrieve found the head still in flight, created a second
\* resource and left the stored entries as they were.
C1_Witness ==
    /\ poolLast.op = "Retrieve"
    /\ poolLast.pre # <<>>
    /\ Head(poolLast.pre)[1] > poolLast.fence
    /\ poolLast.created = 1
    /\ m_Pool = poolLast.pre
    /\ numCreated >= 2

\* C2 as written: on any pool, return(r, v) followed by retrieve(v') with v' >= v
\* returns exactly r.
C2_Original_ReturnThenRetrieveGivesSame ==
    (poolLast.op = "Retrieve" /\ poolLast.afterReturn # 0) =>
        (poolLast.ret = poolLast.afterReturn /\ poolLast.created = 0)

\* C2 amended: on a pool that is empty before the returns, return(r, v) followed by
\* retrieve(v') with v' >= v returns exactly r, and N returns with non-decreasing
\* fence values followed by up to N retrievals, each with a completed fence that
\* covers the entry it is due, hand back the resources in the order they were
\* returned, without calling createNew.
C2_RoundTripFifoFromEmpty ==
    /\ rt.live =>
        /\ rt.created = 0
        /\ Len(rt.outs) <= Len(rt.rets)
        /\ \A i \in 1..Len(rt.outs) : rt.outs[i] = rt.rets[i][2]
    /\ (poolLast.op = "Retrieve" /\ poolLast.afterReturn # 0
            /\ Len(poolLast.pre) = 1) =>
        (poolLast.ret = poolLast.afterReturn /\ poolLast.created = 0)

\* C2 witness: three returns with rising fence values on an empty pool, then
\* three retrievals, all served from the pool.
C2_Witness ==
    /\ rt.live
    /\ Len(rt.rets) = 3
    /\ Len(rt.outs) = 3
    /\ rt.rets[1][1] < rt.rets[3][1]
    /\ m_Pool = <<>>

\* C3: after any sequence of ReturnToPool, RetrieveFromPool and Trim (returns made
\* with a fence value not below the pool's largest), the fence values of the
\* stored entries are non-decreasing in insertion order.
C3_PoolFencesNonDecreasing ==
    \A i \in 1..Len(m_Pool) : \A j \in 1..Len(m_Pool) :
        i <= j => m_Pool[i][1] <= m_Pool[j][1]

\* C3 witness: a trim has just removed the head of a pool that still holds two
\* entries with different fence values.
C3_Witness ==
    /\ poolLast.op = "Trim"
    /\ Len(poolLast.pre) = 3
    /\ Len(m_Pool) = 2
    /\ m_Pool[1][1] < m_Pool[2][1]

(***************************************************************************)
(* Claims about CFencedRingBuffer (checked under SpecRing).                *)
(***************************************************************************)
\* The spec's head: the code keeps m_Head one m_Size ahead of it.
SpecHead(r) == r.m_Head - r.m_Size

RECURSIVE SumAllocations(_, _)
SumAllocations(r, slots) ==
    IF slots = {} THEN 0
    ELSE LET i == CHOOSE x \in slots : TRUE
         IN  r.m_Ledger[i].m_NumAllocations + SumAllocations(r, slots \ {i})

\* C4: in every reachable state 0 <= tail - head <= size, and the sum of
\* numAllocations over the ledger slots marked in use equals tail - head.
C4_RingAccounting ==
    LET used == ring.m_Tail - SpecHead(ring)
    IN  /\ 0 <= used
        /\ used <= ring.m_Size
        /\ SumAllocations(ring, ring.m_LedgerMask) = used

\* C4 witness: a failed Allocate on a full ring that has wrapped, with the live
\* items spread over at least two ledger entries.
C4_Witness ==
    /\ ringLast.op = "Allocate" /\ ringLast.hr = "E_FAIL"
    /\ ring.m_Tail - SpecHead(ring) = ring.m_Size
    /\ SpecHead(ring) > 0
    /\ Cardinality({i \in ring.m_LedgerMask : ring.m_Ledger[i].m_NumAllocations > 0}) >= 2

\* C5: a successful Allocate(NumItems > 0) returns the start of the new range: the
\* offset is tail mod size taken just before tail is advanced by NumItems (after
\* any padding), and offset + NumItems <= size.
C5_OffsetIsStartOfRange ==
    (ringLast.op = "Allocate" /\ ringLast.hr = "S_OK" /\ ringLast.NumItems > 0) =>
        LET start == ring.m_Tail - ringLast.NumItems
            loc == ringLast.preTail % ring.m_Size
        IN  /\ ringLast.OffsetOut = start % ring.m_Size
            /\ ringLast.OffsetOut + ringLast.NumItems <= ring.m_Size
            /\ start = IF loc + ringLast.NumItems > ring.m_Size
                       THEN ringLast.preTail + (ring.m_Size - loc)
                       ELSE ringLast.preTail

\* C5 witness: a successful Allocate that first padded to the end of the buffer:
\* the range starts at the wrap boundary, past the tail the call found.
C5_Witness ==
    /\ ringLast.op = "Allocate" /\ ringLast.hr = "S_OK"
    /\ ringLast.NumItems > 1
    /\ ringLast.preTail % Size # 0
    /\ ring.m_Tail - ringLast.NumItems > ringLast.preTail
    /\ ringLast.OffsetOut = 0

\* C6: Deallocate(completed) releases exactly the in-use ledger slots whose fence
\* value is <= completed: afterwards no in-use slot has fence <= completed, head
\* has advanced by the sum of the released slots' allocation counts, and tail and
\* every slot with fence > completed are unchanged.
C6_DeallocateReleasesExactly ==
    [][ringLast'.op = "Deallocate" =>
         LET c == ringLast'.fence
             released == {i \in ring.m_LedgerMask : ring.m_Ledger[i].m_FenceValue <= c}
         IN  /\ ring'.m_LedgerMask = ring.m_LedgerMask \ released
             /\ \A i \in ring'.m_LedgerMask : ring'.m_Ledger[i].m_FenceValue > c
             /\ ring'.m_Head = ring.m_Head + SumAllocations(ring, released)
             /\ ring'.m_Tail = ring.m_Tail
             /\ ring'.m_LedgerIndex = ring.m_LedgerIndex
             /\ \A i \in 0..(cLedgerSize - 1) :
                    ring.m_Ledger[i].m_FenceValue > c =>
                        ring'.m_Ledger[i] = ring.m_Ledger[i]]_vars

\* C6 witness: a Deallocate released allocations of some entries and left others
\* in flight.
C6_Witness ==
    /\ ringLast.op = "Deallocate"
    /\ ringLast.fence >= 1
    /\ ring.m_Head > ringLast.preHead
    /\ ring.m_Tail > SpecHead(ring)
    /\ \E i \in ring.m_LedgerMask : ring.m_Ledger[i].m_NumAllocations > 0

\* A contiguous range of n items fits between tail and head + size, the items up
\* to the end of the buffer being skipped when the range would straddle it.
Fits(tail, head, n) ==
    LET loc == tail % Size
        start == IF loc + n > Size THEN tail + (Size - loc) ELSE tail
    IN  start + n <= head

\* C7: Allocate returns Err only when the ledger is saturated (all 16 slots in use)
\* or when no contiguous range of NumItems fits; it never returns Err while a
\* ledger slot is free and the request fits.
C7_ErrOnlySaturatedOrNoRoom ==
    (ringLast.op = "Allocate" /\ ringLast.hr = "E_FAIL") =>
        \/ ringLast.preFull
        \/ ~Fits(ringLast.preTail, ringLast.preHead, ringLast.NumItems)

\* C8: after Deallocate(c) with c >= every fence value passed to Allocate so far,
\* Allocate(NumItems, f) with 0 < NumItems < size/2 and f > c succeeds, whatever
\* the tail position is.
C8_AllocateAfterFullRelease ==
    /\ (ringLast.op = "Deallocate" /\ ringLast.fence >= fenceSeen) =>
          \A n \in 1..Size : \A f \in (ringLast.fence + 1)..(ringLast.fence + 2) :
              n < Size \div 2 => Allocate(ring, n, f).hr = "S_OK"
    /\ (ringLast.op = "Allocate" /\ ringLast.afterDrain /\ ringLast.NumItems > 0) =>
          ringLast.hr = "S_OK"

\* C8 witness: an Allocate right after such a Deallocate that had to pad to the
\* end of the buffer, and succeeded.
C8_Witness ==
    /\ ringLast.op = "Allocate" /\ ringLast.afterDrain
    /\ ringLast.hr = "S_OK"
    /\ (ringLast.preTail % Size) + ringLast.NumItems > Size

\* The first call on a new ring is an Allocate of size/2 - 1 items.
C9_FirstCall ==
    ringLast.count = 1 /\ ringLast.op = "Allocate" /\ ringLast.NumItems = Size \div 2 - 1

\* C9 as written: on a new ring, of two successive Allocate calls with
\* NumItems = size/2 - 1 and the same fence value, the first succeeds, the second
\* fails with Err, and afterwards exactly one ledger slot is in use.
C9_Original_SecondFails ==
    /\ C9_FirstCall => ringLast.hr = "S_OK"
    /\ ringLast.second =>
          /\ ringLast.hr = "E_FAIL"
          /\ Cardinality(ring.m_LedgerMask) = 1

\* C9 amended: the first succeeds at offset 0 and the second succeeds too, at
\* offset size/2 - 1; afterwards both allocations are charged to one ledger entry
\* and two slots are marked in use: that entry's and slot 0, in use from
\* construction.
C9_BothSucceed ==
    /\ C9_FirstCall => (ringLast.hr = "S_OK" /\ ringLast.OffsetOut = 0)
    /\ ringLast.second =>
          /\ ringLast.hr = "S_OK"
          /\ ringLast.OffsetOut = Size \div 2 - 1
          /\ ring.m_Tail = 2 * (Size \div 2 - 1)
          /\ ring.m_LedgerMask = {0, 1}
          /\ GetCurrentLedgeEntry(ring) = LedgerEntry(ringLast.fence, ring.m_Tail)
          /\ {i \in ring.m_LedgerMask : ring.m_Ledger[i].m_NumAllocations > 0} = {1}

\* C9 witness: the second of the two calls has returned.
C9_Witness ==
    /\ ringLast.second
    /\ ringLast.NumItems > 0
    /\ ringLast.hr = "S_OK"

\* The last call was Allocate(NumItems > 0) with (tail mod size) + NumItems > size.
Wraps ==
    /\ ringLast.op = "Allocate" /\ ringLast.NumItems > 0
    /\ (ringLast.preTail % Size) + ringLast.NumItems > Size

\* What C10 says of such a call: the padding is consumed and charged to the current
\* entry (same fence), tail moves to the wrap boundary, and the request is placed
\* at offset 0 or, if it does not fit, Err is returned with the padding consumed.
PaddingConsumed ==
    LET remainder == Size - (ringLast.preTail % Size)
        got == IF ringLast.hr = "S_OK" THEN ringLast.NumItems ELSE 0
    IN  /\ ring.m_Tail = ringLast.preTail + remainder + got
        /\ GetCurrentLedgeEntry(ring).m_FenceValue = ringLast.fence
        /\ GetCurrentLedgeEntry(ring).m_NumAllocations
               = ringLast.preNum + remainder + got
        /\ ringLast.hr = "S_OK" => ringLast.OffsetOut = 0
        /\ ringLast.hr = "S_OK" <=>
               ringLast.preTail + remainder + ringLast.NumItems <= ringLast.preHead

\* The same request, repeated after a Deallocate that released the entry holding
\* the padding, succeeds at offset 0.
RetrySucceeds ==
    ringLast.retry => (ringLast.hr = "S_OK" /\ ringLast.OffsetOut = 0)

\* C10 as written: whenever (tail mod size) + NumItems > size, Allocate consumes
\* the padding first.
C10_Original_PaddingAlwaysConsumed ==
    /\ Wraps => PaddingConsumed
    /\ RetrySucceeds

\* C10 amended: when (tail mod size) + NumItems > size, the ledger step succeeds
\* and the padding itself fits (tail + padding <= head + size), Allocate consumes
\* size - (tail mod size) items as padding charged to the current ledger entry,
\* which moves tail to the wrap boundary; the request is then returned at offset 0
\* or, if it does not fit, Err is returned with the padding still consumed, and
\* after a Deallocate that releases that entry the same request succeeds at
\* offset 0.  When the ledger step fails or the padding does not fit, Allocate
\* returns Err and consumes nothing.
C10_PaddingThenOffsetZero ==
    LET remainder == Size - (ringLast.preTail % Size)
        padFits == ringLast.preTail + remainder <= ringLast.preHead
    IN  /\ (Wraps /\ ~ringLast.ledgerFail /\ padFits) => PaddingConsumed
        /\ (Wraps /\ (ringLast.ledgerFail \/ ~padFits)) =>
              /\ ringLast.hr = "E_FAIL"
              /\ ring.m_Tail = ringLast.preTail
              /\ ring.m_Head = ringLast.preHead
        /\ RetrySucceeds

\* C10 witness: a request that failed after its padding was consumed has been
\* repeated after the Deallocate and was placed at offset 0.
C10_Witness ==
    /\ ringLast.retry
    /\ ringLast.hr = "S_OK"
    /\ ringLast.OffsetOut = 0
    /\ ringLast.NumItems > 1

\* C11 as written: a successful Allocate(n, f) followed by Deallocate(completed)
\* with completed >= f restores tail - head to the value it had before the
\* Allocate.
C11_Original_RestoresDifference ==
    (ringLast.op = "Deallocate" /\ ringLast.allocUsed >= 0) =>
        ring.m_Tail - SpecHead(ring) = ringLast.allocUsed

\* C11 amended: with fence values that never decrease, a successful
\* Allocate(n, f) followed by Deallocate(completed) with completed >= f releases
\* every item outstanding, those allocated before this Allocate included: tail is
\* unchanged, tail - head is 0 and no ledger slot is in use, so the difference is
\* the one before the Allocate exactly when nothing was outstanding then.
C11_AllocateDeallocateReleasesAll ==
    (ringLast.op = "Deallocate" /\ ringLast.allocUsed >= 0) =>
        /\ ring.m_Tail = ringLast.preTail
        /\ ring.m_Tail - SpecHead(ring) = 0
        /\ ring.m_LedgerMask = {}
        /\ (ring.m_Tail - SpecHead(ring) = ringLast.allocUsed) <=> (ringLast.allocUsed = 0)

\* C11 witness: the Allocate found items outstanding that the Deallocate released
\* with its own.
C11_Witness ==
    /\ ringLast.op = "Deallocate"
    /\ ringLast.allocUsed > 0
    /\ ring.m_Tail - SpecHead(ring) = 0
    /\ ring.m_Head > ringLast.preHead

(***************************************************************************)
(* Claims about CDescriptorHeapManager (checked under SpecHeap, where no   *)
(* allocation fails, and SpecHeapOom, where allocations may fail).         *)
(***************************************************************************)
\* The descriptor slots a free range covers.
RangeSlots(Range) ==
    {ptr \in Range.Start..(Range.End - 1) : (ptr - Range.Start) % m_DescriptorSize = 0}

\* The union of the free ranges of the page at index.
FreeSlots(m, index) ==
    UNION {RangeSlots(m.m_Heaps[index + 1][i]) : i \in 1..Len(m.m_Heaps[index + 1])}

PageIndices(m) == 0..(Len(m.m_Heaps) - 1)

\* The number of times index appears in m_FreeHeaps.
TimesInFreeHeaps(m, index) ==
    Cardinality({i \in 1..Len(m.m_FreeHeaps) : m.m_FreeHeaps[i] = index})

\* C12: for every page, after any sequence of AllocateHeapSlot and FreeHeapSlot
\* calls (each handle freed at most once, no allocation failure), the union of the
\* page's free ranges is exactly the set of the page's slots that are not
\* allocated; so no handle is handed out while it is still allocated, and a page
\* with an empty free list is fully allocated.
C12_FreeRangesAreTheFreeSlots ==
    /\ \A index \in PageIndices(heapMgr) :
          /\ FreeSlots(heapMgr, index) = PageSlots(index) \ HeldPtrs
          /\ heapMgr.m_Heaps[index + 1] = <<>> => PageSlots(index) \subseteq HeldPtrs
    /\ \A h \in heldSlots :
          h.index \in PageIndices(heapMgr) /\ h.ptr \in PageSlots(h.index)
    /\ (heapLast.op = "Allocate" /\ ~heapLast.threw) =>
          /\ ~heapLast.wasHeld
          /\ [ptr |-> heapLast.Ret, index |-> heapLast.index] \in heldSlots

\* C12 witness: an allocation from the second page while the first page, once
\* full, has two separate free ranges again.
C12_Witness ==
    /\ heapLast.op = "Allocate" /\ ~heapLast.threw
    /\ heapLast.index = 1
    /\ Len(heapMgr.m_Heaps) = 2
    /\ Len(heapMgr.m_Heaps[1]) = 2
    /\ heapMgr.m_Heaps[2] # <<>>
    /\ Cardinality(heldSlots) >= 3

\* C13: for every page, after any sequence of AllocateHeapSlot and FreeHeapSlot
\* calls, the free ranges are non-overlapping, strictly ascending by start, and no
\* two adjacent ranges touch.
C13_FreeRangesAscendingAndApart ==
    \A index \in PageIndices(heapMgr) :
        LET FreeList == heapMgr.m_Heaps[index + 1]
        IN  /\ \A i \in 1..Len(FreeList) : FreeList[i].Start < FreeList[i].End
            /\ \A i \in 1..(Len(FreeList) - 1) :
                   FreeList[i].End < FreeList[i + 1].Start

\* C14: in every reachable state a page's index is in m_FreeHeaps if and only if
\* the page's free list is non-empty, and it is there at most once.
C14_FreePageListMatchesFreeLists ==
    \A index \in PageIndices(heapMgr) :
        /\ TimesInFreeHeaps(heapMgr, index) <= 1
        /\ (TimesInFreeHeaps(heapMgr, index) = 1) <=> (heapMgr.m_Heaps[index + 1] # <<>>)

\* C15 as written: in every reachable state, AllocateHeapSlot returning h, then
\* FreeHeapSlot(h, its page), then AllocateHeapSlot again returns h.
C15_Original_SameHandleAgain ==
    (heapLast.op = "Allocate" /\ heapLast.again # NoHandle /\ ~heapLast.threw) =>
        heapLast.Ret = heapLast.again

\* C15 amended: AllocateHeapSlot returning h, then FreeHeapSlot(h, its page), then
\* AllocateHeapSlot again returns h, unless the first call took the last free slot
\* of its page while another page had free slots: the free then puts the page
\* behind that other page in m_FreeHeaps, and the second call takes a slot of the
\* page at the front, which is not h.
C15_SameHandleUnlessPageWentBehind ==
    (heapLast.op = "Allocate" /\ heapLast.again # NoHandle /\ ~heapLast.threw) =>
        IF heapLast.againBehind
        THEN /\ heapLast.Ret # heapLast.again
             /\ heapLast.again \notin PageSlots(heapLast.index)
        ELSE heapLast.Ret = heapLast.again

\* C15 witness: the second allocation came from another page than the handle
\* just freed.
C15_Witness ==
    /\ heapLast.op = "Allocate" /\ ~heapLast.threw
    /\ heapLast.again # NoHandle
    /\ heapLast.againBehind
    /\ heapLast.Ret # heapLast.again

\* C16: when a bookkeeping allocation fails inside FreeHeapSlot, the freed range is
\* dropped, and every invariant of the manager still holds afterwards: a page is
\* in m_FreeHeaps iff its free list is non-empty, the free ranges are the slots
\* that are neither allocated nor leaked, and only the freed slot is lost.
C16_FailedFreeKeepsInvariants ==
    (heapLast.op = "Free" /\ heapLast.caught /\ numOom = 1) =>
        /\ C14_FreePageListMatchesFreeLists
        /\ \A index \in PageIndices(heapMgr) :
              FreeSlots(heapMgr, index)
                  = PageSlots(index) \ (HeldPtrs \cup {heapLast.Ret})

\* The handles of the scenario: the first four slots of the first page, the slot
\* after them, and the end of the page.
ScenarioSlot(k) == HeapBase(0) + (k - 1) * m_DescriptorSize

ScenarioRest ==
    IF NumDescriptorsPerHeap > Len(ScenarioFrees)
    THEN <<SFreeRange(ScenarioSlot(Len(ScenarioFrees) + 1),
                      ScenarioSlot(NumDescriptorsPerHeap + 1))>>
    ELSE <<>>

\* C17: with 4 descriptors per page and handles A, B, C, D allocated in that order
\* from one page, freeing B, then C, then A, then D yields the free lists [B,D),
\* then [A,D), then a single range spanning the whole page, and the page's index
\* is then in m_FreeHeaps exactly once.  (With more descriptors per page the range
\* after D is in the list as well.)
C17_FragmentThenCoalesce ==
    LET FreeList == heapMgr.m_Heaps[1]
        n == Len(ScenarioFrees)
    IN  /\ scenario = n + 1 =>
              FreeList = <<SFreeRange(ScenarioSlot(2), ScenarioSlot(3))>> \o ScenarioRest
        /\ scenario = n + 2 =>
              FreeList = <<SFreeRange(ScenarioSlot(2), ScenarioSlot(4))>> \o ScenarioRest
        /\ scenario = n + 3 =>
              FreeList = <<SFreeRange(ScenarioSlot(1), ScenarioSlot(4))>> \o ScenarioRest
        /\ scenario = n + 4 =>
              /\ NumDescriptorsPerHeap = n =>
                    FreeList = <<SFreeRange(HeapBase(0),
                                   HeapBase(0) + NumDescriptorsPerHeap * m_DescriptorSize)>>
              /\ FreeSlots(heapMgr, 0) = PageSlots(0)
              /\ heapMgr.m_FreeHeaps = <<0>>

\* C17 witness: the scenario has run to its end.
C17_Witness ==
    /\ scenario = 2 * Len(ScenarioFrees)
    /\ heapLast.op = "Free"
    /\ heldSlots = {}

(***************************************************************************)
(* Claims about the deferred deletion queue (checked under SpecQueue).     *)
(***************************************************************************)
\* The command-list fences an object was touched with have completed.
TouchedCompleted(p) ==
    \A t \in CommandListTypes : p.touched[t] > 0 => completed[t] >= p.touched[t]

\* The waits attached to an object are satisfied.
WaitsSatisfied(p) ==
    \A i \in 1..Len(p.waits) : extCompleted >= p.waits[i].value

\* The items of queue that are not behind an item trim stops at.
Reachable(queue, deviceBeingDestroyed) ==
    {i \in 1..Len(queue) :
        \A j \in 1..(i - 1) :
            ReadyToDestroy(queue[j], completed, extCompleted, deviceBeingDestroyed)}

Destroyed == {queueLast.destroyed[i] : i \in 1..Len(queueLast.destroyed)}

ObjectQueue == queueMgr.m_DeferredObjectDeletionQueue
SuballocationQueue == queueMgr.m_DeferredSuballocationDeletionQueue

\* C18: an object retired with last-touched fence value V > 0 for command-list
\* type t is never destroyed by TrimDeletedObjects(false) while completed(t) < V;
\* the fences of the types it was not touched by do not hold it back.
C18_NotDestroyedBeforeItsFence ==
    queueLast.op = "Trim" =>
        /\ \A d \in Destroyed : TouchedCompleted(d.m_pUnderlying)
        /\ \A queue \in {ObjectQueue, SuballocationQueue} :
              queue # <<>> =>
                  \/ ~TouchedCompleted(Head(queue).m_pUnderlying)
                  \/ ~WaitsSatisfied(Head(queue).m_pUnderlying)

\* C18 witness: a trim destroyed an object touched by one command-list type while
\* the fence of the other type had not moved, and left an object of that other
\* type in the queue.
C18_Witness ==
    /\ queueLast.op = "Trim"
    /\ completed["COMPUTE"] = 0
    /\ \E d \in Destroyed : d.m_pUnderlying.touched["GRAPHICS"] > 0
    /\ ObjectQueue # <<>>
    /\ Head(ObjectQueue).m_pUnderlying.touched["COMPUTE"] > 0

\* What the claims C19 and C20 share: nothing is destroyed, by an ordinary trim or
\* on teardown, while one of its deferred waits is not satisfied.
DestroyedAfterWaits ==
    queueLast.op \in {"Trim", "Destructor"} =>
        \A d \in Destroyed : WaitsSatisfied(d.m_pUnderlying)

\* C19 as written: an object with a DeferredWait stays queued while the wait is not
\* satisfied, and the next trim after the wait is satisfied (its command-list
\* fences having completed) destroys it.
C19_Original_DestroyedByNextTrim ==
    /\ DestroyedAfterWaits
    /\ queueLast.op = "Trim" =>
          \A i \in 1..Len(ObjectQueue) :
              ObjectQueue[i].m_pUnderlying.waits # <<>> =>
                  ~(/\ TouchedCompleted(ObjectQueue[i].m_pUnderlying)
                    /\ WaitsSatisfied(ObjectQueue[i].m_pUnderlying))

\* C19 amended: an object with a DeferredWait stays queued while the wait is not
\* satisfied, even when its command-list fences have completed; once the wait is
\* satisfied and its command-list fences have completed, the next trim destroys
\* it if every item before it in the queue is ready to destroy as well: trim
\* stops at the first item that is not ready.
C19_DestroyedByNextTrimIfReached ==
    /\ DestroyedAfterWaits
    /\ queueLast.op = "Trim" =>
          \A i \in Reachable(ObjectQueue, FALSE) :
              ObjectQueue[i].m_pUnderlying.waits # <<>> =>
                  ~(/\ TouchedCompleted(ObjectQueue[i].m_pUnderlying)
                    /\ WaitsSatisfied(ObjectQueue[i].m_pUnderlying))

\* C19 witness: a trim destroyed an object that has a deferred wait and was
\* touched by a command list.
C19_Witness ==
    /\ queueLast.op = "Trim"
    /\ \E d \in Destroyed :
          d.m_pUnderlying.waits # <<>> /\ d.m_pUnderlying.touched["GRAPHICS"] > 0

\* On teardown nothing whose completion is required is destroyed before its
\* command-list fences have completed.
TeardownKeepsRequired ==
    queueLast.op = "Destructor" =>
        \A d \in Destroyed :
            d.m_pUnderlying.completionRequired => TouchedCompleted(d.m_pUnderlying)

\* C20 as written: on teardown an item with completionRequired = false is
\* destroyed even if its fence never completes, and an item with
\* completionRequired = true is not destroyed until its fence completes.
C20_Original_TeardownDestroysNotRequired ==
    /\ TeardownKeepsRequired
    /\ queueLast.op = "Destructor" =>
          \A queue \in {ObjectQueue, SuballocationQueue} :
              \A i \in 1..Len(queue) : queue[i].m_pUnderlying.completionRequired

\* C20 amended: on teardown an item with completionRequired = false whose
\* deferred waits are satisfied is destroyed even if its fence never completes,
\* provided every item before it in its queue is destroyed too (trim stops at the
\* first item that is not ready); an item with completionRequired = true is not
\* destroyed until its fence completes.
C20_TeardownDestroysNotRequiredIfReached ==
    /\ TeardownKeepsRequired
    /\ queueLast.op = "Destructor" =>
          \A queue \in {ObjectQueue, SuballocationQueue} :
              \A i \in Reachable(queue, TRUE) :
                  \/ queue[i].m_pUnderlying.completionRequired
                  \/ ~WaitsSatisfied(queue[i].m_pUnderlying)

\* C20 witness: the destructor destroyed an object whose completion is not
\* required and whose fence has not completed, and stopped at an object whose
\* completion is required.
C20_Witness ==
    /\ queueLast.op = "Destructor"
    /\ \E d \in Destroyed :
          ~d.m_pUnderlying.completionRequired /\ ~TouchedCompleted(d.m_pUnderlying)
    /\ ObjectQueue # <<>>
    /\ Head(ObjectQueue).m_pUnderlying.completionRequired
    /\ ~TouchedCompleted(Head(ObjectQueue).m_pUnderlying)

\* The last call of TrimDeletedObjects left queue empty or with a head that is
\* not ready to destroy.
HeadNotReady(queue) ==
    queue # <<>> =>
        ~ReadyToDestroy(Head(queue), completed, extCompleted,
                        queueLast.deviceBeingDestroyed)

\* C21: when TrimDeletedObjects returns, each of the two deletion queues is empty
\* or has a head that is not ready to destroy, and what was destroyed is a prefix
\* of each queue, in the order of the queue: the rest of each queue is unchanged.
C21_TrimPopsReadyHeadsOnly ==
    [][queueLast'.op \in {"Trim", "Destructor"} =>
          /\ HeadNotReady(ObjectQueue)'
          /\ HeadNotReady(SuballocationQueue)'
          /\ \E i \in 0..Len(ObjectQueue), j \in 0..Len(SuballocationQueue) :
                /\ ObjectQueue' = SubSeq(ObjectQueue, i + 1, Len(ObjectQueue))
                /\ SuballocationQueue' =
                       SubSeq(SuballocationQueue, j + 1, Len(SuballocationQueue))
                /\ queueLast'.destroyed =
                       SubSeq(ObjectQueue, 1, i) \o SubSeq(SuballocationQueue, 1, j)]_vars

\* C21 witness: a trim destroyed the head of the object queue and stopped at the
\* item behind it.
C21_Witness ==
    /\ queueLast.op = "Trim"
    /\ queueLast.destroyed # <<>>
    /\ ObjectQueue # <<>>
    /\ ~TouchedCompleted(Head(ObjectQueue).m_pUnderlying)

(***************************************************************************)
(* More claims about CFencePool (checked under SpecPool).                  *)
(***************************************************************************)
\* C29: Trim(threshold, completed) removes the head, and only the head, exactly
\* when the pool is not empty, the head's fence is <= completed and
\* completed - head's fence >= threshold; otherwise the pool is unchanged (a head
\* whose fence is above completed is never removed, whatever the threshold).
C29_TrimRemovesHeadExactlyWhenDue ==
    poolLast.op = "Trim" =>
        m_Pool = IF /\ poolLast.pre # <<>>
                    /\ Head(poolLast.pre)[1] <= poolLast.fence
                    /\ poolLast.fence - Head(poolLast.pre)[1] >= poolLast.threshold
                 THEN Tail(poolLast.pre)
                 ELSE poolLast.pre

\* C29 witness: a trim removed the head of a pool of several entries.
C29_Witness ==
    /\ poolLast.op = "Trim"
    /\ Len(poolLast.pre) >= 2
    /\ m_Pool = Tail(poolLast.pre)
    /\ poolLast.threshold > 0

\* C30: when the allocation of the pool entry fails in ReturnToPool, the stored
\* entries are unchanged and the resource is dropped: it is neither stored in the
\* pool nor left with the caller.
C30_FailedReturnDropsResource ==
    (poolLast.op = "Return" /\ poolLast.bad_alloc) =>
        /\ m_Pool = poolLast.pre
        /\ poolLast.res \notin Resources(m_Pool)
        /\ poolLast.res \notin held

\* C30 witness: a return failed to allocate its entry while the pool held entries.
C30_Witness ==
    /\ poolLast.op = "Return"
    /\ poolLast.bad_alloc
    /\ poolLast.pre # <<>>

(***************************************************************************)
(* Claims about CBoundedFencePool (checked under SpecBounded).             *)
(***************************************************************************)
\* The three cases of RetrieveFromPool(c, wait, create) on the pool as it is.
HeadInFlight(c) == m_Pool # <<>> /\ c < Head(m_Pool)[1]
HeadCompleted(c) == m_Pool # <<>> /\ Head(m_Pool)[1] <= c

\* C22: RetrieveFromPool takes one of three paths.  Pool empty, or head in flight
\* with fewer than m_MaxInFlightDepth entries: pfnCreateNew is called, the pool is
\* unchanged and nothing is waited for.  Head in flight with at least
\* m_MaxInFlightDepth entries: pfnWaitForFenceValue is called once, with the
\* head's fence, pfnCreateNew is not called and, the wait having returned, the
\* head is popped and returned.  Head's fence <= completed: the head is popped
\* and returned with no callback.
C22_RetrieveTakesOneOfThreePaths ==
    [][boundedLast'.op = "Retrieve" =>
          LET c == boundedLast'.fence
              last == boundedLast'
          IN  /\ (m_Pool = <<>> \/ (HeadInFlight(c) /\ Len(m_Pool) < m_MaxInFlightDepth))
                    => /\ last.created = 1 /\ last.ret = numCreated'
                       /\ last.waited = <<>>
                       /\ m_Pool' = m_Pool
              /\ (HeadInFlight(c) /\ Len(m_Pool) >= m_MaxInFlightDepth)
                    => /\ last.waited = <<Head(m_Pool)[1]>>
                       /\ last.created = 0
                       /\ last.threw = (last.wait = "throw")
                       /\ ~last.threw =>
                              m_Pool' = Tail(m_Pool) /\ last.ret = Head(m_Pool)[2]
              /\ HeadCompleted(c)
                    => /\ last.waited = <<>> /\ last.created = 0
                       /\ m_Pool' = Tail(m_Pool) /\ last.ret = Head(m_Pool)[2]]_vars

\* C22 witness: with two entries in a pool of depth 2, a retrieve waited for the
\* head's fence and returned the head.
C22_Witness ==
    /\ boundedLast.op = "Retrieve"
    /\ m_MaxInFlightDepth = 2
    /\ boundedLast.wait = "completed"
    /\ Len(m_Pool) = 1
    /\ boundedLast.ret \in held

LiveResources == Cardinality(Resources(m_Pool)) + Cardinality(held)

\* C23 as written: the resources created through the pool that are live at the
\* same time, in the pool or with callers, never exceed m_MaxInFlightDepth.
C23_Original_LiveCappedByDepth ==
    LiveResources <= m_MaxInFlightDepth

\* C23 amended: with callers that hold at most k >= 1 resources at a time, the
\* live resources never exceed m_MaxInFlightDepth + k - 1 (k when the depth is 0):
\* an empty pool always creates, and a pool with fewer than m_MaxInFlightDepth
\* entries creates while its head is in flight.
C23_LiveCappedByDepthAndHolding ==
    LiveResources <= IF m_MaxInFlightDepth = 0 THEN holding
                     ELSE m_MaxInFlightDepth + holding - 1

\* C23 witness: the cap is reached by a retrieve that created a resource while
\* the pool held an entry in flight.
C23_Witness ==
    /\ boundedLast.op = "Retrieve"
    /\ boundedLast.created = 1
    /\ m_Pool # <<>>
    /\ m_MaxInFlightDepth > 0
    /\ LiveResources = m_MaxInFlightDepth + holding - 1

\* C24: when pfnWaitForFenceValue reports device loss, by returning false or by
\* throwing, RetrieveFromPool fails, hands out nothing and leaves the pool
\* unchanged.
C24_DeviceLossIsPropagated ==
    [][(boundedLast'.op = "Retrieve" /\ boundedLast'.wait \in {"device_lost", "throw"}) =>
          /\ boundedLast'.threw
          /\ boundedLast'.ret = 0
          /\ m_Pool' = m_Pool
          /\ held' = held]_vars

(***************************************************************************)
(* Claims about CMultiLevelPool (checked under SpecSize and SpecMulti).    *)
(***************************************************************************)
\* ceil(size / ResourceSizeMultiple), and the order of sizes.
CeilOfMultiples(ByteSize) == ByteSize.hi + (IF ByteSize.lo > 0 THEN 1 ELSE 0)

AtLeast(a, b) == a.hi > b.hi \/ (a.hi = b.hi /\ a.lo >= b.lo)

\* C25: for every size >= 1 the bucket index is ceil(size / sizeMultiple) - 1 and
\* the aligned size passed to createNew is (index + 1) * sizeMultiple, the
\* smallest multiple of sizeMultiple that is >= size; size 0 maps to index 0.
C25_IndexAndAlignedSizeExact ==
    sizing.applied =>
        IF sizing.Size = Size64(0, 0)
        THEN sizing.PoolIndex = 0
        ELSE /\ sizing.PoolIndex = CeilOfMultiples(sizing.Size) - 1
             /\ sizing.AlignedSize = Size64(sizing.PoolIndex + 1, 0)
             /\ AtLeast(sizing.AlignedSize, sizing.Size)
             /\ ~AtLeast(Size64(sizing.AlignedSize.hi - 1, 0), sizing.Size)

\* C26: RetrieveFromPool hands out a pooled resource only if it was returned with
\* a size of the bucket the request maps to and with a fence <= completed: the
\* resource a retrieve call erases and returns is pooled, under the bucket index
\* of the request, with a fence not above the completed value of the request.
C26_HandsOutFromTheRequestedBucket ==
    [][\A t \in Threads :
          (threads[t].pc = "erase" /\ threads'[t].pc = "idle") =>
              /\ life[threads[t].head].state = "pooled"
              /\ life[threads[t].head].index = threads[t].PoolIndex
              /\ life[threads[t].head].fence <= threads[t].fence
              /\ life'[threads[t].head].state = "held"]_vars

\* C26 witness: with a resource pooled in each of two buckets, a request for
\* bucket 1 is about to be handed the resource returned under bucket 1.
C26_Witness ==
    \E t \in Threads :
        /\ threads[t].pc = "erase"
        /\ threads[t].PoolIndex = 1
        /\ life[threads[t].head] = Life("pooled", 1, threads[t].fence)
        /\ Len(m_MultiPool) = 2
        /\ m_MultiPool[1] # <<>>

\* C27 as written: createNew never runs while the pool's lock is held by the
\* thread that calls it.
C27_Original_CreateNeverUnderLock ==
    \A t \in Threads : threads[t].pc = "create" => m_Lock # t

\* C27 amended: a retrieve that finds its bucket index beyond the vector releases
\* the lock before calling createNew; one that finds the bucket in the vector
\* with nothing to reuse (empty, or its head in flight) calls createNew with the
\* lock held.
C27_CreateUnlockedOnlyBeyondVector ==
    \A t \in Threads :
        threads[t].pc = "create" =>
            /\ threads[t].found = "beyond" => m_Lock # t
            /\ threads[t].found \in {"empty", "in_flight"} => m_Lock = t

\* C27 witness: one thread is in createNew without the lock, its bucket being
\* beyond the vector, while the other is in createNew with the lock, its bucket
\* being empty.
C27_Witness ==
    \E t \in Threads, u \in Threads :
        /\ threads[t].pc = "create" /\ threads[t].found = "beyond"
        /\ threads[u].pc = "create" /\ threads[u].found = "empty"
        /\ m_Lock = u

\* The pools in which resource r is stored.
BucketsOf(r) == {i \in 1..Len(m_MultiPool) : r \in Resources(m_MultiPool[i])}

\* C28: under every interleaving of ReturnToPool, RetrieveFromPool and Trim calls
\* by the threads, no returned resource is handed out twice, or handed out after
\* Trim erased it; a returned resource is stored once, in the bucket it was
\* returned under, until it is handed out or trimmed; and a resource a retrieve
\* call is about to hand out is still pooled.
C28_NoResourceHandedOutTwiceOrLost ==
    /\ \A r \in 1..Len(life) :
          /\ life[r].state # "twice"
          /\ life[r].state = "pooled" =>
                /\ BucketsOf(r) = {life[r].index + 1}
                /\ Len(SelectSeq(m_MultiPool[life[r].index + 1],
                                 LAMBDA entry : entry[2] = r)) = 1
          /\ life[r].state # "pooled" => BucketsOf(r) = {}
    /\ \A t \in Threads :
          threads[t].pc = "erase" => life[threads[t].head].state = "pooled"

\* C28 witness: while one thread is about to erase and return a pooled resource,
\* the other is in createNew, outside the lock.
C28_Witness ==
    \E t \in Threads, u \in Threads :
        /\ threads[t].pc = "erase"
        /\ m_Lock = t
        /\ threads[u].pc = "create"

\* The positions of the entries of pool whose fence value has completed.
Eligible(pool, CurrentFenceValue) ==
    {i \in 1..Len(pool) : pool[i][1] <= CurrentFenceValue}

\* C31: whenever some stored entry has a fence value <= the completed value,
\* RetrieveFromPool returns the earliest-inserted such entry, removes it and no
\* other entry, and does not call pfnCreateNew.
C31_RetrieveReturnsEldestEligible ==
    poolLast.op = "Retrieve" =>
        LET eligible == Eligible(poolLast.pre, poolLast.fence)
        IN  eligible # {} =>
                LET eldest == CHOOSE i \in eligible : \A j \in eligible : i <= j
                IN  /\ poolLast.ret = poolLast.pre[eldest][2]
                    /\ poolLast.created = 0
                    /\ m_Pool = [k \in 1..(Len(poolLast.pre) - 1) |->
                                    IF k < eldest THEN poolLast.pre[k]
                                    ELSE poolLast.pre[k + 1]]

\* C31 witness: a retrieve from a pool of several entries, of which the completed
\* value covers the first and not the last, handed out the first.
C31_Witness ==
    /\ poolLast.op = "Retrieve"
    /\ Len(poolLast.pre) >= 2
    /\ 1 \in Eligible(poolLast.pre, poolLast.fence)
    /\ Len(poolLast.pre) \notin Eligible(poolLast.pre, poolLast.fence)
    /\ poolLast.ret = poolLast.pre[1][2]
    /\ poolLast.created = 0

\* C32: with non-decreasing, non-zero fence values passed to Allocate, a range
\* returned by a successful Allocate lies within the buffer and holds no slot of
\* a range returned by an earlier successful Allocate whose fence value no
\* Deallocate has covered since.
C32_GrantedRangesDoNotOverlap ==
    /\ ~ranges.overlap
    /\ (ringLast.op = "Allocate" /\ ringLast.hr = "S_OK" /\ ringLast.NumItems > 0) =>
          /\ 0 <= ringLast.OffsetOut
          /\ ringLast.OffsetOut + ringLast.NumItems <= Size

\* C32 witness: a successful Allocate returned a range of a ring in which slots
\* on both sides of the range are still owned by earlier, uncovered calls, one
\* of them with a smaller fence value, after the tail has gone round the buffer.
C32_Witness ==
    /\ ringLast.op = "Allocate" /\ ringLast.hr = "S_OK" /\ ringLast.NumItems > 0
    /\ ring.m_Tail > Size
    /\ \A s \in 0..(Size - 1) : ranges.owner[s] # 0
    /\ \E s \in 0..(Size - 1) : ranges.owner[s] < ringLast.fence

\* C33: an Allocate call that returns Err because the next ledger slot is still
\* in use leaves the ring as it was: m_Head, m_Tail, every ledger entry,
\* m_LedgerMask and m_LedgerIndex.
C33_LedgerFailureLeavesRingUnchanged ==
    [][(ringLast'.op = "Allocate" /\ ringLast'.ledgerFail) => ring' = ring]_vars

\* C34: when Allocate(n, f) failed because the next ledger slot was in use and
\* a Deallocate then released at least one ledger slot, the retry Allocate(n, f)
\* does not fail on the ledger.
C34_RetryAfterReleasePassesLedger ==
    (ringLast.op = "Allocate" /\ ringLast.ledgerRetry) => ~ringLast.ledgerFail

(***************************************************************************)
(* More claims about the deferred-deletion queue (checked under SpecQueue). *)
(***************************************************************************)
\* C35: AddSuballocationToQueue either returns the block to its parent allocator
\* at once, without pushing it (exactly when the fence values it was retired
\* with have completed at the time of the call), or pushes it, never both; and a
\* block leaves the queue only in a step that destroys it, so that over a run a
\* retired block is returned to its parent allocator at most once.
C35_SuballocationReturnedOrEnqueuedOnce ==
    [][LET d == queueLast'.destroyed
           n == Len(SuballocationQueue)
       IN  /\ queueLast'.op = "AddSuballocation" =>
                 /\ ObjectQueue' = ObjectQueue
                 /\ \/ /\ Len(d) = 1
                       /\ SuballocationQueue' = SuballocationQueue
                       /\ TouchedCompleted(d[1].m_pUnderlying)
                    \/ /\ d = <<>>
                       /\ Len(SuballocationQueue') = n + 1
                       /\ SubSeq(SuballocationQueue', 1, n) = SuballocationQueue
                       /\ ~TouchedCompleted(SuballocationQueue'[n + 1].m_pUnderlying)
           /\ queueLast'.op # "AddSuballocation" =>
                 \E j \in 0..n :
                     /\ SuballocationQueue' = SubSeq(SuballocationQueue, j + 1, n)
                     /\ Len(d) >= j
                     /\ SubSeq(d, Len(d) - j + 1, Len(d)) = SubSeq(SuballocationQueue, 1, j)
      ]_vars

\* C35 witness: a block was returned to its parent allocator at once, its fence
\* value having completed, while a block retired before it is still queued.
C35_Witness ==
    /\ queueLast.op = "AddSuballocation"
    /\ Len(queueLast.destroyed) = 1
    /\ \E t \in CommandListTypes : queueLast.destroyed[1].m_pUnderlying.touched[t] > 0
    /\ SuballocationQueue # <<>>

\* C36: with every recorded fence value completing, every deferred wait becoming
\* satisfied and TrimDeletedObjects called again and again, every object and
\* suballocation placed on a deletion queue is eventually destroyed: as long as
\* the manager lives, both queues are empty again and again, and an item leaves
\* its queue only by being destroyed (C21, C35).
C36_QueuedItemsEventuallyDestroyed ==
    []<>(QueuedItems(queueMgr) = 0 \/ destructed)

\* C36 witness: a trim destroyed all that was queued, two items or more, one of
\* them held back until then by its deferred wait and one by its fence value.
C36_Witness ==
    /\ queueLast.op = "Trim"
    /\ Len(queueLast.destroyed) >= 2
    /\ QueuedItems(queueMgr) = 0
    /\ \E x \in Destroyed : x.m_pUnderlying.waits # <<>>
    /\ \E x \in Destroyed : \E t \in CommandListTypes : x.m_pUnderlying.touched[t] > 0

(***************************************************************************)
(* Claims about a CBoundedFencePool shared by threads (checked under       *)
(* SpecShared).                                                            *)
(***************************************************************************)
\* C37: in a CBoundedFencePool constructed with its mutex, a thread that is in
\* pfnWaitForFenceValue holds the lock, so no step of another thread changes the
\* pool, the entry whose fence value it passed stays the head, and the entry it
\* moves out and erases when the wait returns is that entry.
C37_WaiterPopsTheEntryItWaitedFor ==
    [][\A t \in Threads :
          waiters[t].pc = "waiting" =>
              /\ m_pLock = t
              /\ m_Pool # <<>> /\ Head(m_Pool) = waiters[t].Head
              /\ \/ waiters'[t].pc = "waiting" /\ m_Pool' = m_Pool
                 \/ /\ waiters'[t].pc = "idle"
                    /\ boundedLast'.waited = <<waiters[t].Head[1]>>
                    /\ \/ boundedLast'.threw /\ m_Pool' = m_Pool /\ held' = held
                       \/ /\ ~boundedLast'.threw
                          /\ boundedLast'.ret = waiters[t].Head[2]
                          /\ m_Pool' = Tail(m_Pool)
                          /\ held' = held \cup {waiters[t].Head[2]}]_vars

\* C37 witness: a thread came back from its wait and was handed the entry it
\* had waited for, out of a pool that holds another entry, while a caller holds
\* a resource it could return.
C37_Witness ==
    /\ boundedLast.op = "Retrieve"
    /\ boundedLast.waited # <<>> /\ ~boundedLast.threw
    /\ boundedLast.ret \in held
    /\ m_Pool # <<>>
    /\ Cardinality(held) >= 2
    /\ m_pLock = NoOwner

(***************************************************************************)
(* Claims about a CBoundedFencePool of the default depth (checked under    *)
(* SpecDefault).                                                           *)
(***************************************************************************)
\* C38: a CBoundedFencePool constructed with the default MaxInFlightDepth does
\* what a CFencePool does.  ReturnToPool and Trim are the inherited functions;
\* each RetrieveFromPool returns what CFencePool::RetrieveFromPool returns from
\* the same entries, leaves the same entries stored, calls pfnCreateNew as often,
\* and never calls pfnWaitForFenceValue.
C38_DefaultDepthIsAFencePool ==
    [][/\ boundedLast'.op = "Retrieve" =>
             LET base == CFencePool_RetrieveFromPool(m_Pool, boundedLast'.fence,
                                                     numCreated + 1)
             IN  /\ m_Pool' = base.pool
                 /\ boundedLast'.ret = base.ret
                 /\ boundedLast'.created = base.created
                 /\ numCreated' = numCreated + base.created
                 /\ held' = held \cup {base.ret}
                 /\ boundedLast'.waited = <<>>
                 /\ ~boundedLast'.threw
       /\ boundedLast'.op = "Return" =>
             \E r \in held, bad_alloc \in BOOLEAN :
                 /\ m_Pool' = CFencePool_ReturnToPool(m_Pool, r, boundedLast'.fence,
                                                      bad_alloc)
                 /\ held' = held \ {r}
       /\ boundedLast'.op = "Trim" =>
             \E t \in 0..MaxThreshold, c \in 0..MaxPoolFence :
                 m_Pool' = CFencePool_Trim(m_Pool, t, c)]_vars

\* C38 witness: a retrieve from a pool of two entries or more, whose head is
\* still in flight, created a resource and left the entries where they were.
C38_Witness ==
    /\ m_MaxInFlightDepth = UINT_MAX
    /\ boundedLast.op = "Retrieve"
    /\ boundedLast.created = 1 /\ boundedLast.waited = <<>>
    /\ Len(m_Pool) >= 2
    /\ boundedLast.fence < Head(m_Pool)[1]

(***************************************************************************)
(* Claims about the multi-level pool under memory pressure (checked under  *)
(* SpecMultiOom).                                                          *)
(***************************************************************************)
\* C39: CMultiLevelPool::ReturnToPool absorbs a failed allocation: no call ends
\* the program, and a call that drops its resource (it could not grow the
\* vector or allocate the entry) leaves every existing bucket as it was.
C39_ReturnAbsorbsOutOfMemory ==
    [][/\ \A t \in Threads : threads'[t].pc # "terminated"
       /\ \A r \in 1..Len(life) :
             (life[r].state = "held" /\ life'[r].state = "released") =>
                 \A i \in 1..Len(m_MultiPool) : m_MultiPool'[i] = m_MultiPool[i]]_vars

(***************************************************************************)
(* Claims about the pages of the descriptor heap manager (checked under    *)
(* SpecHeapOom).                                                           *)
(***************************************************************************)
\* C40: AllocateHeapSlot creates a page only when no existing page has a free
\* descriptor slot, which is when the free-page list is empty; pages are only
\* appended, one at a time: the number of pages never decreases and the page at
\* an index stays the heap that was registered at that index.
C40_NewPageOnlyWhenNoPageHasFreeSlot ==
    [][/\ Len(heapMgr'.m_Heaps) >= Len(heapMgr.m_Heaps)
       /\ Len(heapMgr'.m_Heaps) > Len(heapMgr.m_Heaps) =>
             /\ heapLast'.op = "Allocate"
             /\ Len(heapMgr'.m_Heaps) = Len(heapMgr.m_Heaps) + 1
             /\ heapMgr.m_FreeHeaps = <<>>
             /\ \A i \in 1..Len(heapMgr.m_Heaps) : heapMgr.m_Heaps[i] = <<>>
       /\ \A i \in 1..Len(heapMgr'.m_Heaps) :
             \A k \in 1..Len(heapMgr'.m_Heaps[i]) :
                 /\ HeapBase(i - 1) <= heapMgr'.m_Heaps[i][k].Start
                 /\ heapMgr'.m_Heaps[i][k].End <=
                        HeapBase(i - 1) + NumDescriptorsPerHeap * m_DescriptorSize]_vars

=============================================================================
